---------------------------- MODULE Spec2Model ----------------------------
(***************************************************************************)
(* Conversation reconstruction (ConversationParser) and highlight          *)
(* extraction (SmartHighlighter) of llms_to_pdf.                           *)
(*                                                                         *)
(* A JavaScript string is a sequence of one-character strings, so that     *)
(* startsWith, includes, trim, split, substring and the regular            *)
(* expressions of the source are computed character by character.          *)
(* Offsets are JavaScript offsets (0-based, end exclusive) wherever the    *)
(* source stores them; a helper that takes or returns a "position" with a  *)
(* 1-based TLA+ index says so.                                             *)
(***************************************************************************)
EXTENDS Integers, Sequences, FiniteSets, TLC

(***************************************************************************)
(* Strings                                                                 *)
(***************************************************************************)

\* String.prototype.trim and \s of the regular expressions: white space.
WhiteSpace == {" ", "\n", "\t"}

\* The characters a TLA+ string cannot hold: U+0060 (the code fence is three of
\* them) and U+2022 (a list bullet).
Backquote == "backquote"
Bullet    == "bullet"

UpperChars == <<"A", "B", "C", "D", "E", "F", "G", "H", "I", "J", "K", "L", "M", "N", "O", "P", "Q", "R", "S", "T", "U", "V", "W", "X", "Y", "Z">>
LowerChars == <<"a", "b", "c", "d", "e", "f", "g", "h", "i", "j", "k", "l", "m", "n", "o", "p", "q", "r", "s", "t", "u", "v", "w", "x", "y", "z">>

LowerOf == [c \in {UpperChars[i] : i \in 1..Len(UpperChars)} |->
              LowerChars[CHOOSE i \in 1..Len(UpperChars) : UpperChars[i] = c]]

\* String.prototype.toLowerCase, and the folding of the i flag.
ToLowerCase(s) == [i \in 1..Len(s) |-> IF s[i] \in DOMAIN LowerOf THEN LowerOf[s[i]] ELSE s[i]]

\* s.substring(from, to) for 0 <= from <= to <= s.length (JavaScript offsets).
Substring(s, from, to) == SubSeq(s, from + 1, to)

\* Whether t occurs in s at JavaScript offset p.
OccursAt(s, t, p) == /\ p >= 0
                     /\ p + Len(t) <= Len(s)
                     /\ \A k \in 1..Len(t) : s[p + k] = t[k]

\* s.startsWith(t)
StartsWith(s, t) == OccursAt(s, t, 0)

\* s.includes(t)
Includes(s, t) == \E p \in 0..(Len(s) - Len(t)) : OccursAt(s, t, p)

\* /t/i.test(s) for a pattern t without metacharacters
TestIgnoreCase(s, t) == Includes(ToLowerCase(s), ToLowerCase(t))

\* s.trim()
Trim(s) ==
  LET keep == {i \in 1..Len(s) : s[i] \notin WhiteSpace}
  IN  IF keep = {} THEN <<>>
      ELSE SubSeq(s, CHOOSE i \in keep : \A j \in keep : i <= j,
                     CHOOSE i \in keep : \A j \in keep : j <= i)

\* s.split('\n'): the lines of s; the empty string has one (empty) line.
Split(s) ==
  LET nl   == {i \in 1..Len(s) : s[i] = "\n"}
      cuts == nl \cup {0, Len(s) + 1}
      n    == Cardinality(nl) + 1
      \* the k-th cut in increasing order, k = 1..n+1
      cut(k) == CHOOSE c \in cuts : Cardinality({d \in cuts : d < c}) = k - 1
  IN  [k \in 1..n |-> SubSeq(s, cut(k) + 1, cut(k + 1) - 1)]

RECURSIVE Join(_, _)
\* parts.join(sep)
Join(parts, sep) ==
  IF Len(parts) = 0 THEN <<>>
  ELSE IF Len(parts) = 1 THEN parts[1]
  ELSE parts[1] \o sep \o Join(Tail(parts), sep)

\* The elements of a sequence.
Range(s) == {s[i] : i \in 1..Len(s)}

(***************************************************************************)
(* ConversationParser (src/src/lib/pdfGenerator.ts)                        *)
(***************************************************************************)

\* The fingerprints of each dialect, in the insertion order of the object
\* literal, which is the order Object.entries walks them in.
sourcePatterns ==
  << [source |-> "chatgpt",
      patterns |-> << <<"C", "h", "a", "t", "G", "P", "T">>, <<"O", "p", "e", "n", "A", "I">>, <<"G", "P", "T", "-", "4">>, <<"G", "P", "T", "-", "3", ".", "5">>, <<"C", "h", "a", "t", " ", "H", "i", "s", "t", "o", "r", "y">> >>],
     [source |-> "claude",
      patterns |-> << <<"C", "l", "a", "u", "d", "e">>, <<"A", "n", "t", "h", "r", "o", "p", "i", "c">>, <<"C", "l", "a", "u", "d", "e", "-", "3">>, <<"C", "l", "a", "u", "d", "e", "-", "2">> >>],
     [source |-> "gemini",
      patterns |-> << <<"G", "e", "m", "i", "n", "i">>, <<"G", "o", "o", "g", "l", "e", " ", "A", "I">>, <<"B", "a", "r", "d">> >>],
     [source |-> "perplexity",
      patterns |-> << <<"P", "e", "r", "p", "l", "e", "x", "i", "t", "y">>, <<"P", "e", "r", "p", "l", "e", "x", "i", "t", "y", " ", "A", "I">> >>] >>

ConversationSource == {"chatgpt", "claude", "gemini", "perplexity", "custom"}

\* patterns.some(pattern => pattern.test(content)) for the k-th dialect
SomePatternMatches(k, content) ==
  \E j \in 1..Len(sourcePatterns[k].patterns) :
      TestIgnoreCase(content, sourcePatterns[k].patterns[j])

\* detectSource with every in place of some: a dialect is taken only when all
\* its fingerprints occur.
detectSource_every(content) ==
  LET hits == {k \in 1..Len(sourcePatterns) :
                 \A j \in 1..Len(sourcePatterns[k].patterns) :
                     TestIgnoreCase(content, sourcePatterns[k].patterns[j])}
  IN  IF hits = {} THEN "custom"
      ELSE sourcePatterns[CHOOSE k \in hits : \A j \in hits : k <= j].source

\* The least offset at which a fingerprint of the k-th dialect occurs in
\* content, Len(content) if none does.
FirstFingerprint(k, content) ==
  LET ps == {p \in 0..Len(content) :
               \E j \in 1..Len(sourcePatterns[k].patterns) :
                  OccursAt(ToLowerCase(content),
                           ToLowerCase(sourcePatterns[k].patterns[j]), p)}
  IN  IF ps = {} THEN Len(content) ELSE CHOOSE p \in ps : \A q \in ps : p <= q

\* detectSource taking the dialect whose fingerprint comes first in the text.
detectSource_earliest(content) ==
  LET hits == {k \in 1..Len(sourcePatterns) : SomePatternMatches(k, content)}
      best == CHOOSE k \in hits :
                \A j \in hits : \/ FirstFingerprint(k, content) < FirstFingerprint(j, content)
                                \/ /\ FirstFingerprint(k, content) = FirstFingerprint(j, content)
                                   /\ k <= j
  IN  IF hits = {} THEN "custom" ELSE sourcePatterns[best].source

\* ConversationParser.detectSource
detectSource(content) ==
  LET hits == {k \in 1..Len(sourcePatterns) : SomePatternMatches(k, content)}
  IN  IF hits = {} THEN "custom"
      ELSE sourcePatterns[CHOOSE k \in hits : \A j \in hits : k <= j].source

\* The role prefixes of each variant, in the order of the if / else-if chain
\* (of the patterns array for parseCustom).  ignoreCase is the i flag of the
\* patterns of parseCustom; startsWith compares exactly.
chatgptPrefixes ==
  << [role |-> "user",      tokens |-> << <<"U", "s", "e", "r", ":">> >>,                     ignoreCase |-> FALSE],
     [role |-> "assistant", tokens |-> << <<"A", "s", "s", "i", "s", "t", "a", "n", "t", ":">>, <<"C", "h", "a", "t", "G", "P", "T", ":">> >>,  ignoreCase |-> FALSE],
     [role |-> "system",    tokens |-> << <<"S", "y", "s", "t", "e", "m", ":">> >>,                   ignoreCase |-> FALSE] >>

claudePrefixes ==
  << [role |-> "user",      tokens |-> << <<"H", "u", "m", "a", "n", ":">> >>,                    ignoreCase |-> FALSE],
     [role |-> "assistant", tokens |-> << <<"A", "s", "s", "i", "s", "t", "a", "n", "t", ":">>, <<"C", "l", "a", "u", "d", "e", ":">> >>,   ignoreCase |-> FALSE],
     [role |-> "system",    tokens |-> << <<"S", "y", "s", "t", "e", "m", ":">> >>,                   ignoreCase |-> FALSE] >>

geminiPrefixes ==
  << [role |-> "user",      tokens |-> << <<"U", "s", "e", "r", ":">> >>,                     ignoreCase |-> FALSE],
     [role |-> "assistant", tokens |-> << <<"G", "e", "m", "i", "n", "i", ":">>, <<"A", "s", "s", "i", "s", "t", "a", "n", "t", ":">> >>,   ignoreCase |-> FALSE] >>

perplexityPrefixes ==
  << [role |-> "user",      tokens |-> << <<"U", "s", "e", "r", ":">> >>,                       ignoreCase |-> FALSE],
     [role |-> "assistant", tokens |-> << <<"P", "e", "r", "p", "l", "e", "x", "i", "t", "y", ":">>, <<"A", "s", "s", "i", "s", "t", "a", "n", "t", ":">> >>, ignoreCase |-> FALSE] >>

customPrefixes ==
  << [role |-> "user",      tokens |-> << <<"U", "s", "e", "r", ":">>, <<"H", "u", "m", "a", "n", ":">>, <<"M", "e", ":">>, <<"I", ":">> >>,
      ignoreCase |-> TRUE],
     [role |-> "assistant", tokens |-> << <<"A", "s", "s", "i", "s", "t", "a", "n", "t", ":">>, <<"A", "I", ":">>, <<"B", "o", "t", ":">>, <<"C", "h", "a", "t", "G", "P", "T", ":">>,
                                          <<"C", "l", "a", "u", "d", "e", ":">>, <<"G", "e", "m", "i", "n", "i", ":">>, <<"P", "e", "r", "p", "l", "e", "x", "i", "t", "y", ":">> >>,
      ignoreCase |-> TRUE],
     [role |-> "system",    tokens |-> << <<"S", "y", "s", "t", "e", "m", ":">>, <<"C", "o", "n", "t", "e", "x", "t", ":">>, <<"I", "n", "s", "t", "r", "u", "c", "t", "i", "o", "n", "s", ":">> >>,
      ignoreCase |-> TRUE] >>

\* The length of the role prefix of rule that line begins with, 0 if none:
\* line.startsWith(token), or pattern.test(line) for an anchored pattern.
PrefixLength(rule, line) ==
  LET hit(t) == IF rule.ignoreCase THEN StartsWith(ToLowerCase(line), ToLowerCase(t))
                ELSE StartsWith(line, t)
      js == {j \in 1..Len(rule.tokens) : hit(rule.tokens[j])}
  IN  IF js = {} THEN 0
      ELSE Len(rule.tokens[CHOOSE j \in js : \A i \in js : j <= i])

\* The first rule of the variant that the line matches, 0 if none.
MatchingRule(prefixes, line) ==
  LET ks == {k \in 1..Len(prefixes) : PrefixLength(prefixes[k], line) > 0}
  IN  IF ks = {} THEN 0 ELSE CHOOSE k \in ks : \A j \in ks : k <= j

\* Flush without its guard: every accumulation is pushed.
Flush_unguarded(messages, currentRole, currentContent) ==
  Append(messages, [role |-> currentRole, content |-> Trim(currentContent)])

\* if (currentContent.trim()) messages.push({ role, content: currentContent.trim() })
Flush(messages, currentRole, currentContent) ==
  IF Trim(currentContent) # <<>>
  THEN Append(messages, [role |-> currentRole, content |-> Trim(currentContent)])
  ELSE messages

\* The else branch assigning instead of appending: the accumulation is lost.
AppendLine_overwrite(currentContent, line) == line

\* The else branch: a line without role prefix joins the accumulation.
AppendLine(currentContent, line) ==
  IF currentContent # <<>> THEN currentContent \o <<"\n">> \o line ELSE line

\* line.replace(prefix, '').trim() for the prefix the line begins with
StripPrefix(rule, line) ==
  Trim(SubSeq(line, PrefixLength(rule, line) + 1, Len(line)))

\* ScanLine pushing the accumulation with the role just matched.
ScanLine_newRole(prefixes, st, line) ==
  LET k == MatchingRule(prefixes, line)
  IN  IF k > 0
      THEN [messages       |-> Flush(st.messages, prefixes[k].role, st.currentContent),
            currentRole    |-> prefixes[k].role,
            currentContent |-> StripPrefix(prefixes[k], line)]
      ELSE [st EXCEPT !.currentContent = AppendLine(st.currentContent, line)]

\* One iteration of the loop over the lines.
ScanLine(prefixes, st, line) ==
  LET k == MatchingRule(prefixes, line)
  IN  IF k > 0
      THEN [messages       |-> Flush(st.messages, st.currentRole, st.currentContent),
            currentRole    |-> prefixes[k].role,
            currentContent |-> StripPrefix(prefixes[k], line)]
      ELSE [st EXCEPT !.currentContent = AppendLine(st.currentContent, line)]

RECURSIVE ScanLines(_, _, _)
ScanLines(prefixes, st, lines) ==
  IF lines = <<>> THEN st
  ELSE ScanLines(prefixes, ScanLine(prefixes, st, Head(lines)), Tail(lines))

\* Reconstruct with the flush after the loop pushing without its guard.
Reconstruct_alwaysPush(prefixes, content) ==
  LET st == ScanLines(prefixes,
                      [messages |-> <<>>, currentRole |-> "user", currentContent |-> <<>>],
                      Split(content))
  IN  Append(st.messages, [role |-> st.currentRole, content |-> Trim(st.currentContent)])

\* The messages of a variant: the loop over content.split('\n') and the
\* flush after it.
Reconstruct(prefixes, content) ==
  LET st == ScanLines(prefixes,
                      [messages |-> <<>>, currentRole |-> "user", currentContent |-> <<>>],
                      Split(content))
  IN  Flush(st.messages, st.currentRole, st.currentContent)

\* firstLine.length < 100
TitleLimit == 100

\* ExtractTitle taking a first line of up to the limit.
ExtractTitle_inclusive(messages, generic) ==
  IF Len(messages) > 0 /\ messages[1].role = "user"
  THEN LET firstLine == Split(messages[1].content)[1]
       IN  IF Len(firstLine) <= TitleLimit THEN firstLine ELSE generic
  ELSE generic

\* "Extract title from first user message"
ExtractTitle(messages, generic) ==
  IF Len(messages) > 0 /\ messages[1].role = "user"
  THEN LET firstLine == Split(messages[1].content)[1]
       IN  IF Len(firstLine) < TitleLimit THEN firstLine ELSE generic
  ELSE generic

\* ConversationParser.extractTags
extractTags(content) ==
  LET lower == ToLowerCase(content)
      tag(cond, name) == IF cond THEN <<name>> ELSE <<>>
  IN  tag(Includes(lower, <<"c", "o", "d", "e">>) \/ Includes(content, <<Backquote, Backquote, Backquote>>), "code")
      \o tag(Includes(lower, <<"a", "p", "i">>) \/ Includes(lower, <<"e", "n", "d", "p", "o", "i", "n", "t">>), "api")
      \o tag(Includes(lower, <<"d", "a", "t", "a", "b", "a", "s", "e">>) \/ Includes(lower, <<"s", "q", "l">>), "database")
      \o tag(Includes(lower, <<"f", "r", "o", "n", "t", "e", "n", "d">>) \/ Includes(lower, <<"r", "e", "a", "c", "t">>), "frontend")
      \o tag(Includes(lower, <<"b", "a", "c", "k", "e", "n", "d">>) \/ Includes(lower, <<"s", "e", "r", "v", "e", "r">>), "backend")
      \o tag(Includes(lower, <<"d", "e", "p", "l", "o", "y", "m", "e", "n", "t">>) \/ Includes(lower, <<"d", "o", "c", "k", "e", "r">>), "deployment")

\* ConversationParser.categorizeConversation
parserCategorizeConversation(messages) ==
  LET content == ToLowerCase(Join([i \in 1..Len(messages) |-> messages[i].content], <<" ">>))
  IN  IF Includes(content, <<"c", "o", "d", "e">>) \/ Includes(content, <<Backquote, Backquote, Backquote>>) THEN "technical"
      ELSE IF Includes(content, <<"d", "e", "s", "i", "g", "n">>) \/ Includes(content, <<"u", "i">>)
              \/ Includes(content, <<"u", "x">>) THEN "design"
      ELSE IF Includes(content, <<"b", "u", "s", "i", "n", "e", "s", "s">>) \/ Includes(content, <<"s", "t", "r", "a", "t", "e", "g", "y">>) THEN "business"
      ELSE IF Includes(content, <<"l", "e", "a", "r", "n", "i", "n", "g">>) \/ Includes(content, <<"t", "u", "t", "o", "r", "i", "a", "l">>) THEN "learning"
      ELSE "general"

\* The ParsedConversation every variant returns.
ParseWith(prefixes, source, generic, content) ==
  LET messages == Reconstruct(prefixes, content)
  IN  [title    |-> ExtractTitle(messages, generic),
       source   |-> source,
       messages |-> messages,
       metadata |-> [originalFormat |-> source],
       tags     |-> extractTags(content),
       category |-> parserCategorizeConversation(messages)]

parseChatGPT(content)    == ParseWith(chatgptPrefixes, "chatgpt", <<"C", "h", "a", "t", "G", "P", "T", " ", "C", "o", "n", "v", "e", "r", "s", "a", "t", "i", "o", "n">>, content)
parseClaude(content)     == ParseWith(claudePrefixes, "claude", <<"C", "l", "a", "u", "d", "e", " ", "C", "o", "n", "v", "e", "r", "s", "a", "t", "i", "o", "n">>, content)
parseGemini(content)     == ParseWith(geminiPrefixes, "gemini", <<"G", "e", "m", "i", "n", "i", " ", "C", "o", "n", "v", "e", "r", "s", "a", "t", "i", "o", "n">>, content)
parsePerplexity(content) ==
  ParseWith(perplexityPrefixes, "perplexity", <<"P", "e", "r", "p", "l", "e", "x", "i", "t", "y", " ", "C", "o", "n", "v", "e", "r", "s", "a", "t", "i", "o", "n">>, content)
parseCustom(content)     == ParseWith(customPrefixes, "custom", <<"C", "u", "s", "t", "o", "m", " ", "C", "o", "n", "v", "e", "r", "s", "a", "t", "i", "o", "n">>, content)

\* The switch of parse on the source detectSource returned.
ParseDetected(source, content) ==
  CASE source = "chatgpt"    -> parseChatGPT(content)
    [] source = "claude"     -> parseClaude(content)
    [] source = "gemini"     -> parseGemini(content)
    [] source = "perplexity" -> parsePerplexity(content)
    [] OTHER                 -> parseCustom(content)

\* ConversationParser.parse
parse(content) == ParseDetected(detectSource(content), content)

\* --- the RegExp objects of sourcePatterns, which all calls share ------------
\* The flags of every literal of sourcePatterns: /.../i
patternFlags_global == {"g", "i"}
patternFlags == {"i"}

\* The lastIndex of every RegExp object when the class is loaded.
NoLastIndex ==
  [k \in 1..Len(sourcePatterns) |-> [j \in 1..Len(sourcePatterns[k].patterns) |-> 0]]

\* pattern.test(s) on a RegExp object whose lastIndex is from: whether it
\* matched, and the lastIndex it leaves.  Without the g flag the search
\* starts at 0 and lastIndex is not touched; with it the search starts at
\* lastIndex, which becomes the end of the match, or 0 when there is none.
RegExpTest(pattern, from, s) ==
  IF "g" \notin patternFlags
  THEN [found |-> TestIgnoreCase(s, pattern), lastIndex |-> from]
  ELSE IF \E p \in from..Len(s) : OccursAt(ToLowerCase(s), ToLowerCase(pattern), p)
       THEN [found |-> TRUE,
             lastIndex |-> Len(pattern)
                + (CHOOSE p \in from..Len(s) :
                     /\ OccursAt(ToLowerCase(s), ToLowerCase(pattern), p)
                     /\ \A q \in from..(p - 1) :
                          ~OccursAt(ToLowerCase(s), ToLowerCase(pattern), q))]
       ELSE [found |-> FALSE, lastIndex |-> 0]

RECURSIVE DetectFrom(_, _, _, _)
\* What the test t of the j-th pattern of the k-th dialect leads to: the
\* dialect is returned, or some goes on to the next pattern.
DetectStep(k, j, state, content, t) ==
  IF t.found
  THEN [source |-> sourcePatterns[k].source,
        lastIndex |-> [state EXCEPT ![k][j] = t.lastIndex]]
  ELSE DetectFrom(k, j + 1, [state EXCEPT ![k][j] = t.lastIndex], content)

\* detectSource from the j-th pattern of the k-th dialect on, the RegExp
\* objects being in the given state: the source returned and the state left.
DetectFrom(k, j, state, content) ==
  IF k > Len(sourcePatterns) THEN [source |-> "custom", lastIndex |-> state]
  ELSE IF j > Len(sourcePatterns[k].patterns) THEN DetectFrom(k + 1, 1, state, content)
  ELSE DetectStep(k, j, state, content,
                  RegExpTest(sourcePatterns[k].patterns[j], state[k][j], content))

(***************************************************************************)
(* SmartHighlighter (src/unnamed/part_001)                                 *)
(*                                                                         *)
(* confidence_score is counted in tenths: 0.9 is 9, 1.0 is 10.             *)
(***************************************************************************)

\* 1.0 of Math.min(highlight.confidence_score, 1.0), in tenths
One == 10

\* The optional field notes of a Highlight, when it is not set.
NoNotes == "undefined"

\* The character of s at JavaScript offset i; "" past either end.
CharAt(s, i) == IF 0 <= i /\ i < Len(s) THEN s[i + 1] ELSE ""

\* The least element of a non-empty set of integers.
Min(S) == CHOOSE x \in S : \A y \in S : x <= y
Max(S) == CHOOSE x \in S : \A y \in S : y <= x

\* The offset after the longest run of white space that starts at offset i:
\* where a greedy \s* ends.
SkipWhiteSpace(s, i) ==
  Min({j \in i..Len(s) : CharAt(s, j) \notin WhiteSpace})

\* --- extractCodeBlocks: the code fence, lazily up to the next fence ------
Fence == <<Backquote, Backquote, Backquote>>

\* The first match of the code block pattern at or after lastIndex: its
\* offsets [index, end), or index = -1 when exec returns null.
CodeBlockExec(s, lastIndex) ==
  LET closes(p) == {q \in (p + Len(Fence))..Len(s) : OccursAt(s, Fence, q)}
      starts    == {p \in lastIndex..Len(s) : OccursAt(s, Fence, p) /\ closes(p) # {}}
  IN  IF starts = {} THEN [index |-> -1, end |-> -1]
      ELSE [index |-> Min(starts), end |-> Min(closes(Min(starts))) + Len(Fence)]

RECURSIVE CodeBlockMatches(_, _)
\* One turn of the while loop: the match m that exec returned, then the rest.
CodeBlockLoop(s, m) ==
  IF m.index < 0 THEN <<>> ELSE <<m>> \o CodeBlockMatches(s, m.end)

\* The matches of the while loop, in order.
CodeBlockMatches(s, lastIndex) == CodeBlockLoop(s, CodeBlockExec(s, lastIndex))

\* A highlight whose content is the body between the fences: not what the
\* source does.
CodeBlockHighlight_body(content, messageIndex, m) ==
  [content          |-> Substring(content, m.index + Len(Fence), m.end - Len(Fence)),
   category         |-> "code",
   confidence_score |-> 9,
   tags             |-> <<"code">>,
   notes            |-> NoNotes,
   position         |-> [messageIndex |-> messageIndex,
                         startChar    |-> m.index,
                         endChar      |-> m.end]]

\* The highlight pushed for the match m.
CodeBlockHighlight(content, messageIndex, m) ==
  [content          |-> Substring(content, m.index, m.end),
   category         |-> "code",
   confidence_score |-> 9,
   tags             |-> <<"code">>,
   notes            |-> NoNotes,
   position         |-> [messageIndex |-> messageIndex,
                         startChar    |-> m.index,
                         endChar      |-> m.end]]

\* The highlights pushed for the matches ms, in order.
CodeBlockHighlights(content, messageIndex, ms) ==
  [k \in 1..Len(ms) |-> CodeBlockHighlight(content, messageIndex, ms[k])]

\* SmartHighlighter.extractCodeBlocks
extractCodeBlocks(content, messageIndex) ==
  CodeBlockHighlights(content, messageIndex, CodeBlockMatches(content, 0))

\* --- extractActionItems ---------------------------------------------------
\* (?:TODO|TASK|ACTION|NEXT STEP|FUTURE|PLAN), matched with the i flag
actionMarkers == << <<"T", "O", "D", "O">>, <<"T", "A", "S", "K">>, <<"A", "C", "T", "I", "O", "N">>, <<"N", "E", "X", "T", " ", "S", "T", "E", "P">>, <<"F", "U", "T", "U", "R", "E">>, <<"P", "L", "A", "N">> >>

\* The characters . matches: all but the line terminators.
IsDotChar(c) == c # "" /\ c # "\n"

\* The pattern from the marker on, tried at offset q (after the optional
\* bullet): the offsets of the captured group and of the end of the match,
\* with ok = FALSE when no way of matching succeeds.  The alternatives are
\* tried in the order of the backtracking matcher: the colon taken before the
\* colon left out, a longer run of white space before a shorter one, a
\* shorter capture before a longer one.
ActionTail(s, q) ==
  LET low  == ToLowerCase(s)
      ms   == {k \in 1..Len(actionMarkers) : OccursAt(low, ToLowerCase(actionMarkers[k]), q)}
      r    == q + Len(actionMarkers[Min(ms)])
      \* the starts of the capture after the optional colon at offset r1
      caps(r1) == {t \in r1..SkipWhiteSpace(s, r1) : IsDotChar(CharAt(s, t))}
      withColon == IF CharAt(s, r) = ":" THEN caps(r + 1) ELSE {}
      t    == IF withColon # {} THEN Max(withColon) ELSE Max(caps(r))
      u    == Min({j \in (t + 1)..Len(s) : j = Len(s) \/ CharAt(s, j) = "\n"})
  IN  IF ms = {} THEN [ok |-> FALSE]
      ELSE IF withColon = {} /\ caps(r) = {} THEN [ok |-> FALSE]
      ELSE [ok |-> TRUE, capStart |-> t, capEnd |-> u,
            end |-> IF u < Len(s) THEN u + 1 ELSE u]

\* The pattern without its (?:^|\n) and bullet: a marker matches wherever it
\* stands in a line.  Not what the source does.
ActionMatchAt_anywhere(s, p) == ActionTail(s, p)

\* The pattern tried at offset p: (?:^|\n), then the optional bullet with its
\* white space, then the rest.
ActionMatchAt(s, p) ==
  LET afterBullet(q) ==
        IF CharAt(s, q) \in {"-", "*", Bullet} THEN SkipWhiteSpace(s, q + 1) ELSE q
      atStart   == IF p = 0 THEN ActionTail(s, afterBullet(0)) ELSE [ok |-> FALSE]
      afterLine == IF CharAt(s, p) = "\n" THEN ActionTail(s, afterBullet(p + 1))
                   ELSE [ok |-> FALSE]
  IN  IF atStart.ok THEN atStart ELSE afterLine

\* exec from lastIndex: the first offset at which the pattern matches.
ActionExec(s, lastIndex) ==
  LET starts == {p \in lastIndex..Len(s) : ActionMatchAt(s, p).ok}
  IN  IF starts = {} THEN [index |-> -1, end |-> -1]
      ELSE [index    |-> Min(starts)] @@ ActionMatchAt(s, Min(starts))

RECURSIVE ActionMatches(_, _)
\* One turn of the while loop: the match m that exec returned, then the rest.
ActionLoop(s, m) ==
  IF m.index < 0 THEN <<>> ELSE <<m>> \o ActionMatches(s, m.end)

\* The matches of the while loop, in order.
ActionMatches(s, lastIndex) == ActionLoop(s, ActionExec(s, lastIndex))

\* ActionHighlight with an end one past the match: not what the source does.
ActionHighlight_onePast(content, messageIndex, m) ==
  [content          |-> Trim(Substring(content, m.capStart, m.capEnd)),
   category         |-> "action_item",
   confidence_score |-> 8,
   tags             |-> <<"action", "todo">>,
   notes            |-> NoNotes,
   position         |-> [messageIndex |-> messageIndex,
                         startChar    |-> m.index,
                         endChar      |-> m.end + 1]]

\* The highlight pushed for the match m: match[1].trim() as content, the
\* offsets of match[0] as position.
ActionHighlight(content, messageIndex, m) ==
  [content          |-> Trim(Substring(content, m.capStart, m.capEnd)),
   category         |-> "action_item",
   confidence_score |-> 8,
   tags             |-> <<"action", "todo">>,
   notes            |-> NoNotes,
   position         |-> [messageIndex |-> messageIndex,
                         startChar    |-> m.index,
                         endChar      |-> m.end]]

\* The highlights of the matches, the last match first: not what the source
\* does.
ActionHighlights_reversed(content, messageIndex, ms) ==
  [k \in 1..Len(ms) |-> ActionHighlight(content, messageIndex, ms[Len(ms) + 1 - k])]

\* The highlights pushed for the matches ms, in order.
ActionHighlights(content, messageIndex, ms) ==
  [k \in 1..Len(ms) |-> ActionHighlight(content, messageIndex, ms[k])]

\* SmartHighlighter.extractActionItems
extractActionItems(content, messageIndex) ==
  ActionHighlights(content, messageIndex, ActionMatches(content, 0))

\* --- extractQuestions -----------------------------------------------------
\* [^.!?]
SentenceEnd == {".", "!", "?"}

\* question.length > 10 && question.length < 200
QuestionMinLength == 10
QuestionMaxLength == 200

\* exec from lastIndex: the first offset from which the run of characters
\* that are no sentence end is followed by a question mark.
QuestionExec(s, lastIndex) ==
  LET stop(p) == Min({j \in p..Len(s) : j = Len(s) \/ CharAt(s, j) \in SentenceEnd})
      starts  == {p \in lastIndex..Len(s) : CharAt(s, stop(p)) = "?"}
  IN  IF starts = {} THEN [index |-> -1, end |-> -1]
      ELSE [index |-> Min(starts), end |-> stop(Min(starts)) + 1]

RECURSIVE QuestionMatches(_, _)
\* One turn of the while loop: the match m that exec returned, then the rest.
QuestionLoop(s, m) ==
  IF m.index < 0 THEN <<>> ELSE <<m>> \o QuestionMatches(s, m.end)

\* The matches of the while loop, in order.
QuestionMatches(s, lastIndex) == QuestionLoop(s, QuestionExec(s, lastIndex))

\* const question = match[0].trim()
QuestionText(content, m) == Trim(Substring(content, m.index, m.end))

\* question.length > 10 && question.length < 200
QuestionKept(question) ==
  Len(question) > QuestionMinLength /\ Len(question) < QuestionMaxLength

\* The highlight pushed for a match m that passed the length test.
QuestionHighlight(content, messageIndex, m) ==
  [content          |-> QuestionText(content, m),
   category         |-> "question",
   confidence_score |-> 7,
   tags             |-> <<"question">>,
   notes            |-> NoNotes,
   position         |-> [messageIndex |-> messageIndex,
                         startChar    |-> m.index,
                         endChar      |-> m.end]]

\* The highlights pushed for the matches kept, in order.
QuestionHighlights(content, messageIndex, kept) ==
  [k \in 1..Len(kept) |-> QuestionHighlight(content, messageIndex, kept[k])]

\* SmartHighlighter.extractQuestions
extractQuestions(content, messageIndex) ==
  QuestionHighlights(content, messageIndex,
    SelectSeq(QuestionMatches(content, 0),
              LAMBDA m : QuestionKept(QuestionText(content, m))))

\* --- the deterministic path -----------------------------------------------
DigitChars == <<"0", "1", "2", "3", "4", "5", "6", "7", "8", "9">>

RECURSIVE NumberToString(_)
\* The decimal digits of a natural number, as a template literal prints it.
NumberToString(n) ==
  IF n < 10 THEN <<DigitChars[n + 1]>>
  ELSE NumberToString(n \div 10) \o <<DigitChars[(n % 10) + 1]>>

\* SmartHighlighter.generateFallbackSummary
generateFallbackSummary(conversation) ==
  LET userMessages      == SelectSeq(conversation.messages, LAMBDA m : m.role = "user")
      assistantMessages == SelectSeq(conversation.messages, LAMBDA m : m.role = "assistant")
  IN  <<"C", "o", "n", "v", "e", "r", "s", "a", "t", "i", "o", "n", " ", "a", "b", "o", "u", "t", " ">> \o conversation.title \o <<" ", "w", "i", "t", "h", " ">>
      \o NumberToString(Len(userMessages)) \o <<" ", "u", "s", "e", "r", " ", "q", "u", "e", "s", "t", "i", "o", "n", "s", " ", "a", "n", "d", " ">>
      \o NumberToString(Len(assistantMessages)) \o <<" ", "A", "I", " ", "r", "e", "s", "p", "o", "n", "s", "e", "s", ".">>

\* SmartHighlighter.extractKeyTopics
extractKeyTopics(conversation) ==
  LET messages == conversation.messages
      content  == ToLowerCase(Join([i \in 1..Len(messages) |-> messages[i].content], <<" ">>))
      topic(cond, name) == IF cond THEN <<name>> ELSE <<>>
      topics ==
        topic(Includes(content, <<"r", "e", "a", "c", "t">>) \/ Includes(content, <<"f", "r", "o", "n", "t", "e", "n", "d">>),
              "Frontend Development")
        \o topic(Includes(content, <<"a", "p", "i">>) \/ Includes(content, <<"b", "a", "c", "k", "e", "n", "d">>),
                 "Backend Development")
        \o topic(Includes(content, <<"d", "a", "t", "a", "b", "a", "s", "e">>) \/ Includes(content, <<"s", "q", "l">>), "Database")
        \o topic(Includes(content, <<"d", "e", "p", "l", "o", "y", "m", "e", "n", "t">>) \/ Includes(content, <<"d", "o", "c", "k", "e", "r">>),
                 "Deployment")
        \o topic(Includes(content, <<"t", "e", "s", "t", "i", "n", "g">>) \/ Includes(content, <<"t", "e", "s", "t">>), "Testing")
        \o topic(Includes(content, <<"s", "e", "c", "u", "r", "i", "t", "y">>) \/ Includes(content, <<"a", "u", "t", "h">>), "Security")
  IN  IF Len(topics) > 0 THEN topics ELSE <<"General Discussion">>

\* highlights.filter(h => h.category === category).map(h => h.content)
ContentsOf(highlights, category) ==
  LET kept == SelectSeq(highlights, LAMBDA h : h.category = category)
  IN  [k \in 1..Len(kept) |-> kept[k].content]

\* A loop body without the test of the role: not what the source does.
MessageHighlights_everyRole(message, messageIndex) ==
  extractCodeBlocks(message.content, messageIndex)
  \o extractActionItems(message.content, messageIndex)
  \o extractQuestions(message.content, messageIndex)

\* A loop body that skips the system's messages only: not what the source does.
MessageHighlights_exceptSystem(message, messageIndex) ==
  IF message.role # "system"
  THEN extractCodeBlocks(message.content, messageIndex)
       \o extractActionItems(message.content, messageIndex)
       \o extractQuestions(message.content, messageIndex)
  ELSE <<>>

\* What the body of the for loop pushes for the message at messageIndex.
MessageHighlights(message, messageIndex) ==
  IF message.role = "assistant"
  THEN extractCodeBlocks(message.content, messageIndex)
       \o extractActionItems(message.content, messageIndex)
       \o extractQuestions(message.content, messageIndex)
  ELSE <<>>

RECURSIVE FallbackHighlights(_, _)
\* The highlights after the loop, from the message at messageIndex on.
FallbackHighlights(messages, messageIndex) ==
  IF messageIndex >= Len(messages) THEN <<>>
  ELSE MessageHighlights(messages[messageIndex + 1], messageIndex)
       \o FallbackHighlights(messages, messageIndex + 1)

\* SmartHighlighter.fallbackCategorization
\* The object fallbackCategorization returns, once the loop has filled
\* highlights.
FallbackResult(conversation, highlights) ==
  [highlights   |-> highlights,
   summary      |-> generateFallbackSummary(conversation),
   key_topics   |-> extractKeyTopics(conversation),
   action_items |-> ContentsOf(highlights, "action_item"),
   resources    |-> ContentsOf(highlights, "resource"),
   questions    |-> ContentsOf(highlights, "question")]

\* SmartHighlighter.fallbackCategorization
fallbackCategorization(conversation) ==
  FallbackResult(conversation, FallbackHighlights(conversation.messages, 0))

\* --- the oracle path -------------------------------------------------------
\* A value JSON.parse returned is "null" (null, or a value without properties
\* of its own) or an "object".  An object of the highlights array names the
\* properties it has in fields; the others are undefined.

\* A validateHighlight without the test startChar >= endChar: not what the
\* source does.
validateHighlight_allowEmpty(highlight, conversation) ==
  IF highlight.shape = "null" \/ "position" \notin highlight.fields THEN "throws"
  ELSE LET messageIndex == highlight.position.messageIndex
           startChar    == highlight.position.startChar
           endChar      == highlight.position.endChar
       IN  IF messageIndex < 0 \/ messageIndex >= Len(conversation.messages) THEN "false"
           ELSE LET content == conversation.messages[messageIndex + 1].content
                IN  IF startChar < 0 \/ endChar > Len(content) \/ startChar > endChar
                    THEN "false"
                    ELSE IF "content" \notin highlight.fields THEN "throws"
                    ELSE IF Trim(Substring(content, startChar, endChar))
                              = Trim(highlight.content)
                         THEN "true" ELSE "false"

\* SmartHighlighter.validateHighlight: "true", "false", or "throws" when it
\* reads a property of undefined or null (a TypeError).
validateHighlight(highlight, conversation) ==
  IF highlight.shape = "null" \/ "position" \notin highlight.fields THEN "throws"
  ELSE LET messageIndex == highlight.position.messageIndex
           startChar    == highlight.position.startChar
           endChar      == highlight.position.endChar
       IN  IF messageIndex < 0 \/ messageIndex >= Len(conversation.messages) THEN "false"
           ELSE LET content == conversation.messages[messageIndex + 1].content
                IN  IF startChar < 0 \/ endChar > Len(content) \/ startChar >= endChar
                    THEN "false"
                    ELSE IF "content" \notin highlight.fields THEN "throws"
                    ELSE IF Trim(Substring(content, startChar, endChar))
                              = Trim(highlight.content)
                         THEN "true" ELSE "false"

RECURSIVE Unique(_)
\* [...new Set(tags)]: the first occurrence of each tag, in order
Unique(tags) ==
  IF tags = <<>> THEN <<>>
  ELSE LET front == Unique(SubSeq(tags, 1, Len(tags) - 1))
           last  == tags[Len(tags)]
       IN  IF last \in Range(front) THEN front ELSE Append(front, last)

\* A clamp that also raises the score by a tenth: not what the source does.
ClampScore_boost(score) == IF score + 1 < One THEN score + 1 ELSE One

\* Math.min(score, 1.0)
ClampScore(score) == IF score < One THEN score ELSE One

\* SmartHighlighter.enhanceHighlight, for a highlight that has its tags
EnhancedTags(highlight) ==
  LET tag(cond, name) == IF cond THEN <<name>> ELSE <<>>
      lower == ToLowerCase(highlight.content)
  IN  Unique(highlight.tags
             \o tag(Includes(highlight.content, Fence), "code")
             \o tag(Includes(highlight.content, <<"h", "t", "t", "p">>), "link")
             \o tag(Includes(highlight.content, <<"?">>), "question")
             \o tag(Includes(lower, <<"t", "o", "d", "o">>) \/ Includes(lower, <<"t", "a", "s", "k">>), "todo"))

\* SmartHighlighter.enhanceHighlight: { ...highlight, tags, confidence_score }
enhanceHighlight(highlight, conversation) ==
  [highlight EXCEPT !.tags = EnhancedTags(highlight),
                    !.confidence_score = ClampScore(highlight.confidence_score)]

\* The Highlight of the result that an object of the array becomes.
AsHighlight(h) ==
  [content |-> h.content, category |-> h.category, confidence_score |-> h.confidence_score,
   tags |-> h.tags, notes |-> h.notes, position |-> h.position]

\* result.key_topics || [] and its like
OrEmpty(list) == IF list.defined THEN list.value ELSE <<>>

\* SmartHighlighter.validateAndEnhanceResult: threw is TRUE when a TypeError
\* leaves it (no highlights array, a highlight that validateHighlight cannot
\* read, a validated highlight whose tags cannot be spread).
validateAndEnhanceResult(result, conversation) ==
  IF result.shape = "null" \/ result.highlights.kind # "array" THEN [threw |-> TRUE]
  ELSE LET items == result.highlights.items
           kept  == SelectSeq(items, LAMBDA h : validateHighlight(h, conversation) = "true")
       IN  IF \E k \in 1..Len(items) : validateHighlight(items[k], conversation) = "throws"
           THEN [threw |-> TRUE]
           ELSE IF \E k \in 1..Len(kept) : "tags" \notin kept[k].fields
           THEN [threw |-> TRUE]
           ELSE [threw  |-> FALSE,
                 result |->
                   [highlights   |-> [k \in 1..Len(kept) |->
                                        enhanceHighlight(AsHighlight(kept[k]), conversation)],
                    summary      |-> IF result.summary # <<>> THEN result.summary
                                     ELSE generateFallbackSummary(conversation),
                    key_topics   |-> OrEmpty(result.key_topics),
                    action_items |-> OrEmpty(result.action_items),
                    resources    |-> OrEmpty(result.resources),
                    questions    |-> OrEmpty(result.questions)]]

\* What a call that returned hands to its caller, and a call that threw.
Returned(result) == [status |-> "returned", result |-> result]
Threw == [status |-> "threw"]

\* An inner try block that takes text that is no JSON for an object without
\* highlights of its own: not what the source does.
ParseAndValidate_lenient(conversation, response) ==
  IF response.kind = "text"
  THEN [threw  |-> FALSE,
        result |-> [highlights |-> <<>>, summary |-> generateFallbackSummary(conversation),
                    key_topics |-> <<>>, action_items |-> <<>>, resources |-> <<>>,
                    questions |-> <<>>]]
  ELSE validateAndEnhanceResult(response.value, conversation)

\* The inner try block: JSON.parse(content), then validateAndEnhanceResult.
ParseAndValidate(conversation, response) ==
  IF response.kind = "text" THEN [threw |-> TRUE]
  ELSE validateAndEnhanceResult(response.value, conversation)

\* The inner try with its catch (parseError).
InnerTry(conversation, response) ==
  LET body == ParseAndValidate(conversation, response)
  IN  IF body.threw THEN Returned(fallbackCategorization(conversation))
      ELSE Returned(body.result)

\* The outer try with its catch (error): create() rejects ("error"), the
\* response holds no content ("empty"), or the inner try runs.
OuterTry(conversation, response) ==
  IF response.kind \in {"error", "empty"}
  THEN Returned(fallbackCategorization(conversation))
  ELSE InnerTry(conversation, response)

\* SmartHighlighter.categorizeConversation, with this.openai set (configured)
\* or null, and the response of the oracle when it is called.
categorizeConversation(configured, conversation, response) ==
  IF ~configured THEN Returned(fallbackCategorization(conversation))
  ELSE OuterTry(conversation, response)

\* SmartHighlighter.enhanceHighlightsWithAI: the highlights it resolves to.
\* The response is as for categorizeConversation; the value of a "json"
\* response is an array of objects (highlights.kind = "array") or not.
enhanceHighlightsWithAI(configured, highlights, conversation, response) ==
  IF ~configured THEN highlights
  ELSE IF response.kind \in {"error", "empty", "text"} THEN highlights
  ELSE IF response.value.shape = "null" \/ response.value.highlights.kind # "array"
       THEN highlights
  ELSE LET enhanced == response.value.highlights.items
       IN  IF \E k \in 1..Len(enhanced) : enhanced[k].shape = "null" THEN highlights
           ELSE [k \in 1..Len(enhanced) |->
                  [AsHighlight(enhanced[k]) EXCEPT
                     !.confidence_score = ClampScore(enhanced[k].confidence_score)]]

(***************************************************************************)
(* The state: the arguments and results of the calls                       *)
(***************************************************************************)
VARIABLES
  content,       \* the raw text handed to ConversationParser
  detected,      \* what detectSource returned, "none" before its call
  conversation,  \* the ParsedConversation last returned
  entry,         \* the method that returned it, "none" before any call
  openai,        \* whether the SmartHighlighter holds a client (this.openai)
  response,      \* the response of the oracle to the last call that asked it
  outcome,       \* how categorizeConversation ended, and its result
  highlight,     \* the Highlight first handed to enhanceHighlight
  passes,        \* how often enhanceHighlight has been applied to it
  enhanced,      \* what the last of these calls returned
  reviewed,      \* how enhanceHighlightsWithAI ended, and its highlights
  lastIndex,     \* the lastIndex of each RegExp object of sourcePatterns
  runs,          \* what each finished run of the pipeline returned, in order
  browser,       \* this.browser of the PDFGenerator: a launched browser, or 0 (null)
  launched,      \* the browsers puppeteer.launch returned that nobody has closed
  closing,       \* close(): 0, the browser whose close() it awaits, or -1 (rejected)
  pages,         \* the calls of generatePDF whose page is open
  calls,         \* where each call of generatePDF stands
  route,         \* where the POST handler stands
  conversationText,   \* the page component's state, as of its last render
  parsedConversation,
  categorization,
  isProcessing,
  selectedTemplate,
  isGeneratingPDF,
  processing,    \* the run of handleProcessConversation that awaits its categorization
  processed,     \* how many runs of handleProcessConversation have started
  request        \* the last request handleGeneratePDF sent, and what was on display then

vars == <<content, detected, conversation, entry, openai, response, outcome,
          highlight, passes, enhanced, reviewed, lastIndex, runs,
          browser, launched, closing, pages, calls, route,
          conversationText, parsedConversation, categorization, isProcessing,
          selectedTemplate, isGeneratingPDF, processing, processed, request>>

parserVars      == <<content, detected, conversation, entry>>
highlighterVars == <<openai, response, outcome>>
enhanceVars     == <<highlight, passes, enhanced, reviewed>>
replayVars      == <<lastIndex, runs>>
generatorVars   == <<browser, launched, closing, pages, calls>>
serverVars      == <<generatorVars, route>>
pageVars        == <<conversationText, parsedConversation, categorization, isProcessing,
                     selectedTemplate, isGeneratingPDF, processing, processed, request>>

NoConversation == [title |-> <<>>, source |-> "none", messages |-> <<>>,
                   metadata |-> [originalFormat |-> "none"], tags |-> <<>>,
                   category |-> "none"]
NoResponse  == [kind |-> "none"]
NoOutcome   == [status |-> "none"]
NoHighlight == [content |-> <<>>, category |-> "other", confidence_score |-> 0,
                tags |-> <<>>, notes |-> NoNotes,
                position |-> [messageIndex |-> 0, startChar |-> 0, endChar |-> 0]]

ParserIdle      == detected = "none" /\ conversation = NoConversation /\ entry = "none"
HighlighterIdle == openai = FALSE /\ response = NoResponse /\ outcome = NoOutcome
EnhanceIdle     == /\ highlight = NoHighlight /\ passes = 0
                   /\ enhanced = NoHighlight /\ reviewed = NoOutcome
ReplayIdle      == lastIndex = NoLastIndex /\ runs = <<>>

\* generatePDF is called at most MaxCalls times on one PDFGenerator.
MaxCalls == 2

\* new PDFGenerator(): browser is null, and no call of generatePDF is under way.
GeneratorIdle   == /\ browser = 0 /\ launched = {} /\ closing = 0 /\ pages = {}
                   /\ calls = [c \in 1..MaxCalls |-> "none"]
ServerIdle      == GeneratorIdle /\ route = "none"

\* null, as the value of a state of the page component
Null == [run |-> 0]

\* The page component after its first render (the useState initial values).
PageIdle ==
  /\ conversationText = <<>>
  /\ parsedConversation = Null
  /\ categorization = Null
  /\ isProcessing = FALSE
  /\ selectedTemplate = "none"
  /\ isGeneratingPDF = FALSE
  /\ processing = Null
  /\ processed = 0
  /\ request = Null

(***************************************************************************)
(* The inputs                                                              *)
(***************************************************************************)

\* The sequences over S of length at most n.
RECURSIVE SeqsUpTo(_, _)
SeqsUpTo(S, n) ==
  IF n = 0 THEN {<<>>}
  ELSE LET shorter == SeqsUpTo(S, n - 1)
       IN  shorter \cup {Append(q, x) : q \in shorter, x \in S}

\* Raw texts for the parser: at most MaxLines lines of LineVocabulary.
MaxLines == 2

LineVocabulary ==
  { <<>>,
    <<" ">>,
    <<"U", "s", "e", "r", ":", " ", "h", "i">>,
    <<"U", "s", "e", "r", ":">>,
    <<"u", "s", "e", "r", ":", " ", "l", "o", "w">>,
    <<"H", "u", "m", "a", "n", ":", " ", "h", "e", "y">>,
    <<"A", "s", "s", "i", "s", "t", "a", "n", "t", ":", " ", "o", "k", " ">>,
    <<"C", "l", "a", "u", "d", "e", ":", " ", "y", "o">>,
    <<"G", "e", "m", "i", "n", "i", ":", " ", "g">>,
    <<"S", "y", "s", "t", "e", "m", ":", " ", "s">>,
    <<" ", "m", "o", "r", "e">>,
    <<"v", "i", "a", " ", "O", "p", "e", "n", "A", "I">>,
    <<"U", "s", "e", "r", ":", " ", "o", "r", " ", "C", "l", "a", "u", "d", "e", "?">>,
    <<"P", "e", "r", "p", "l", "e", "x", "i", "t", "y", ":", " ", "p">> }

ParserInputs == {Join(ls, <<"\n">>) : ls \in SeqsUpTo(LineVocabulary, MaxLines)}

(***************************************************************************)
(* ConversationParser: one action per static method                        *)
(***************************************************************************)
InitParser ==
  content \in ParserInputs /\ ParserIdle /\ HighlighterIdle /\ EnhanceIdle /\ ReplayIdle /\ ServerIdle /\ PageIdle

\* The static methods keep no state between calls: a behaviour follows one call
\* of detectSource and one call of a parse method on its input.
DetectSource ==
  /\ detected = "none"
  /\ detected' = detectSource(content)
  /\ UNCHANGED <<content, conversation, entry, highlighterVars, enhanceVars, replayVars, serverVars, pageVars>>

ParseChatGPT ==
  /\ entry = "none"
  /\ conversation' = parseChatGPT(content)
  /\ entry' = "parseChatGPT"
  /\ UNCHANGED <<content, detected, highlighterVars, enhanceVars, replayVars, serverVars, pageVars>>

ParseClaude ==
  /\ entry = "none"
  /\ conversation' = parseClaude(content)
  /\ entry' = "parseClaude"
  /\ UNCHANGED <<content, detected, highlighterVars, enhanceVars, replayVars, serverVars, pageVars>>

ParseGemini ==
  /\ entry = "none"
  /\ conversation' = parseGemini(content)
  /\ entry' = "parseGemini"
  /\ UNCHANGED <<content, detected, highlighterVars, enhanceVars, replayVars, serverVars, pageVars>>

ParsePerplexity ==
  /\ entry = "none"
  /\ conversation' = parsePerplexity(content)
  /\ entry' = "parsePerplexity"
  /\ UNCHANGED <<content, detected, highlighterVars, enhanceVars, replayVars, serverVars, pageVars>>

ParseCustom ==
  /\ entry = "none"
  /\ conversation' = parseCustom(content)
  /\ entry' = "parseCustom"
  /\ UNCHANGED <<content, detected, highlighterVars, enhanceVars, replayVars, serverVars, pageVars>>

Parse ==
  /\ entry = "none"
  /\ conversation' = parse(content)
  /\ entry' = "parse"
  /\ UNCHANGED <<content, detected, highlighterVars, enhanceVars, replayVars, serverVars, pageVars>>

Next ==
  \/ DetectSource
  \/ ParseChatGPT
  \/ ParseClaude
  \/ ParseGemini
  \/ ParsePerplexity
  \/ ParseCustom
  \/ Parse

Spec == InitParser /\ [][Next]_vars

\* Raw texts around the limit of the title: a first line, with or without a
\* role prefix, of a few characters, of one less than TitleLimit and of
\* TitleLimit characters, alone or followed by a second line.
LongLine(n) == [i \in 1..n |-> "x"]

TitleFirstLines ==
  { token \o body : token \in {<<>>, <<"U", "s", "e", "r", ":", " ">>, <<"H", "u", "m", "a", "n", ":", " ">>, <<"A", "s", "s", "i", "s", "t", "a", "n", "t", ":", " ">>},
                    body \in {<<>>, <<"h", "i">>, LongLine(TitleLimit - 1), LongLine(TitleLimit)} }

TitleNextLines == {<<" ", "m", "o", "r", "e">>, <<"C", "l", "a", "u", "d", "e", ":", " ", "y", "o">>, <<"U", "s", "e", "r", ":", " ", "h", "i">>}

TitleInputs ==
  TitleFirstLines \cup {first \o <<"\n">> \o next : first \in TitleFirstLines,
                                                  next \in TitleNextLines}

InitTitle ==
  content \in TitleInputs /\ ParserIdle /\ HighlighterIdle /\ EnhanceIdle /\ ReplayIdle /\ ServerIdle /\ PageIdle

SpecTitle == InitTitle /\ [][Next]_vars

(***************************************************************************)
(* SmartHighlighter.categorizeConversation                                 *)
(***************************************************************************)

\* Transcripts for the highlighter: at most MaxTurns turns of TurnVocabulary.
MaxTurns == 2

TurnVocabulary ==
  { <<"U", "s", "e", "r", ":", " ", "W", "h", "a", "t", " ", "i", "s", " ", "a", " ", "c", "l", "o", "s", "u", "r", "e", "?">>,
    <<"A", "s", "s", "i", "s", "t", "a", "n", "t", ":", " ", "A", " ", "c", "l", "o", "s", "u", "r", "e", " ", "i", "s", " ", "a", " ", "f", "u", "n", "c", "t", "i", "o", "n", " ", "b", "u", "n", "d", "l", "e", "d", " ", "w", "i", "t", "h", " ", "i", "t", "s", " ", "l", "e", "x", "i", "c", "a", "l", " ", "s", "c", "o", "p", "e", ".", " ", "T", "O", "D", "O", ":", " ", "r", "e", "a", "d", " ", "m", "o", "r", "e", ".">>,
    <<"A", "s", "s", "i", "s", "t", "a", "n", "t", ":", " ", Backquote, Backquote, Backquote, "\n", "T", "O", "D", "O", ":", " ", "x", "\n", Backquote, Backquote, Backquote>>,
    <<"U", "s", "e", "r", ":", " ", Backquote, Backquote, Backquote, "y", Backquote, Backquote, Backquote>>,
    <<"A", "s", "s", "i", "s", "t", "a", "n", "t", ":", " ", "T", "O", "D", "O", ":", " ", "f", "i", "x", " ", "i", "t">>,
    <<"A", "s", "s", "i", "s", "t", "a", "n", "t", ":", " ", "I", "s", " ", "i", "t", " ", "o", "k", "?", " ", "Y", "e", "s", ".", " ", "A", "r", "e", " ", "y", "o", "u", " ", "r", "e", "a", "l", "l", "y", " ", "s", "u", "r", "e", "?">>,
    <<"A", "s", "s", "i", "s", "t", "a", "n", "t", ":", " ", "T", "O", "D", "O", ":", " ", "a", "\n", "T", "A", "S", "K", ":", " ", "b">> }

HighlighterInputs == {Join(ts, <<"\n">>) : ts \in SeqsUpTo(TurnVocabulary, MaxTurns)}

\* The properties validateHighlight and enhanceHighlight read of an object.
HighlightFields == {"content", "tags", "position"}

\* An object of the highlights array with the given properties.
HighlightObject(fields, text, score, tags, messageIndex, startChar, endChar) ==
  [shape |-> "object", fields |-> fields, content |-> text, category |-> "insight",
   confidence_score |-> score, tags |-> tags, notes |-> "note",
   position |-> [messageIndex |-> messageIndex, startChar |-> startChar,
                 endChar |-> endChar]]

\* null in the highlights array
NullHighlight == [shape |-> "null", fields |-> {}]

\* The objects the oracle may put into its highlights array for a conversation:
\* for every message the whole message with a score above 1.0 and a repeated
\* tag; for the first message the whole message with white space around the
\* content and a score below 0.0, a content that is not at the position, an
\* end past the message, a negative start, an empty span, and the whole
\* message without tags and without content; a message index below and above
\* the range; an object without position; an object out of range that has
\* nothing but its position; null.
OracleHighlights(conv) ==
  LET n       == Len(conv.messages)
      text(i) == conv.messages[i + 1].content
      len(i)  == Len(text(i))
      whole(i) == [HighlightObject(HighlightFields, text(i), 15, <<"key", "key">>, i, 0, len(i))
                     EXCEPT !.category = "action_item"]
  IN  {whole(i) : i \in 0..(n - 1)}
      \cup (IF n = 0 THEN {}
            ELSE { HighlightObject(HighlightFields, <<" ">> \o text(0) \o <<"\n">>, -5, <<>>,
                                   0, 0, len(0)),
                   HighlightObject(HighlightFields, <<"n", "o", "p", "e">>, 5, <<>>, 0, 0, len(0)),
                   HighlightObject(HighlightFields, text(0), 5, <<>>, 0, 0, len(0) + 1),
                   HighlightObject(HighlightFields, text(0), 5, <<>>, 0, -1, len(0)),
                   HighlightObject(HighlightFields, <<>>, 5, <<>>, 0, len(0), len(0)),
                   HighlightObject({"content", "position"}, text(0), 5, <<>>, 0, 0, len(0)),
                   HighlightObject({"tags", "position"}, <<>>, 5, <<>>, 0, 0, len(0)) })
      \cup { HighlightObject(HighlightFields, <<"x">>, 5, <<>>, -1, 0, 1),
             HighlightObject(HighlightFields, <<"x">>, 5, <<>>, n, 0, 1),
             HighlightObject({"content", "tags"}, <<"x">>, 5, <<>>, 0, 0, 0),
             HighlightObject({"position"}, <<>>, 5, <<>>, n, 0, 1),
             NullHighlight }

\* At most MaxOracleHighlights objects in the highlights array.
MaxOracleHighlights == 1

Undefined     == [defined |-> FALSE]
Defined(list) == [defined |-> TRUE, value |-> list]

\* The object JSON.parse returns: with a highlights array and, when supplied,
\* the summary and the four lists; or without a highlights array.
OracleObject(kind, items, supplied) ==
  [shape        |-> "object",
   highlights   |-> [kind |-> kind, items |-> items],
   summary      |-> IF supplied THEN <<"s", "u", "m">> ELSE <<>>,
   key_topics   |-> IF supplied THEN Defined(<<"Oracle Topic">>) ELSE Undefined,
   action_items |-> IF supplied THEN Defined(<< <<"a", "c", "t">> >>) ELSE Undefined,
   resources    |-> IF supplied THEN Defined(<< <<"r", "e", "s">> >>) ELSE Undefined,
   questions    |-> IF supplied THEN Defined(<< <<"a", "s", "k", "?">> >>) ELSE Undefined]

\* What the call of the oracle can come to: create() rejects (transport
\* failure, timeout), the completion holds no content, the content is no JSON
\* text, or it is the JSON text of null, of an object without highlights, of
\* an object whose highlights is no array, or of an object with an array.
OracleResponses(conv) ==
  { [kind |-> "error"], [kind |-> "empty"], [kind |-> "text"],
    [kind |-> "json", value |-> [shape |-> "null"]],
    [kind |-> "json", value |-> OracleObject("missing", <<>>, TRUE)],
    [kind |-> "json", value |-> OracleObject("notArray", <<>>, TRUE)] }
  \cup { [kind |-> "json", value |-> OracleObject("array", items, supplied)] :
           items \in SeqsUpTo(OracleHighlights(conv), MaxOracleHighlights),
           supplied \in BOOLEAN }

\* new SmartHighlighter(): the client exists when OPENAI_API_KEY is set.
InitHighlighter ==
  /\ content \in HighlighterInputs
  /\ ParserIdle
  /\ openai \in BOOLEAN
  /\ response = NoResponse
  /\ outcome = NoOutcome
  /\ EnhanceIdle
  /\ ReplayIdle /\ ServerIdle /\ PageIdle

\* One call of categorizeConversation on the parsed conversation; the oracle,
\* when there is one, answers with any of its responses.
CategorizeConversation ==
  /\ entry # "none"
  /\ outcome = NoOutcome
  /\ \E r \in (IF openai THEN OracleResponses(conversation) ELSE {NoResponse}) :
        /\ response' = r
        /\ outcome' = categorizeConversation(openai, conversation, r)
  /\ UNCHANGED <<parserVars, openai, enhanceVars, replayVars, serverVars, pageVars>>

NextHighlighter ==
  \/ Parse
  \/ CategorizeConversation

SpecHighlighter == InitHighlighter /\ [][NextHighlighter]_vars

\* Transcripts for the deterministic path: at most MaxFallbackTurns turns, of
\* the user, the system and the assistant, with several fenced blocks, marker
\* lines and questions in one message.
MaxFallbackTurns == 3

FallbackTurns ==
  { <<"U", "s", "e", "r", ":", " ", Backquote, Backquote, Backquote, "y", Backquote, Backquote, Backquote, " ", "I", "s", " ", "t", "h", "i", "s", " ", "r", "e", "a", "l", "l", "y", " ", "o", "k", "?">>,
    <<"S", "y", "s", "t", "e", "m", ":", " ", "A", "r", "e", " ", "y", "o", "u", " ", "r", "e", "a", "l", "l", "y", " ", "s", "u", "r", "e", "?", "\n", "T", "O", "D", "O", ":", " ", "s">>,
    <<"A", "s", "s", "i", "s", "t", "a", "n", "t", ":", " ", Backquote, Backquote, Backquote, "a", Backquote, Backquote, Backquote, "\n", Backquote, Backquote, Backquote, "b", Backquote, Backquote, Backquote, " ", "W", "h", "a", "t", " ", "i", "s", " ", "i", "t", " ", "n", "o", "w", "?", " ", "I", "s", " ", "i", "t", " ", "d", "o", "n", "e", " ", "t", "h", "e", "n", "?">>,
    <<"A", "s", "s", "i", "s", "t", "a", "n", "t", ":", " ", "T", "O", "D", "O", ":", " ", "a", "\n", "\n", "-", " ", "n", "e", "x", "t", " ", "s", "t", "e", "p", " ", "b">>,
    <<"A", "s", "s", "i", "s", "t", "a", "n", "t", ":", " ", "I", "s", " ", "i", "t", " ", "o", "k", "?">>,
    <<"A", "s", "s", "i", "s", "t", "a", "n", "t", ":", " ", "T", "O", "D", "O", ":", " ", "f", "i", "x", " ", "i", "t", "?", " ", "A", "r", "e", " ", "y", "o", "u", " ", "s", "u", "r", "e", " ", "o", "f", " ", "i", "t", "?">> }

FallbackInputs == {Join(ts, <<"\n">>) : ts \in SeqsUpTo(FallbackTurns, MaxFallbackTurns)}

\* new SmartHighlighter() without OPENAI_API_KEY: this.openai stays null.
InitFallback ==
  /\ content \in FallbackInputs
  /\ ParserIdle
  /\ openai = FALSE
  /\ response = NoResponse
  /\ outcome = NoOutcome
  /\ EnhanceIdle
  /\ ReplayIdle /\ ServerIdle /\ PageIdle

SpecFallback == InitFallback /\ [][NextHighlighter]_vars

(***************************************************************************)
(* SmartHighlighter.categorizeConversation, step by step: the call runs to *)
(* its await, the promise of create() settles or stays pending, and the    *)
(* rest of the method runs once it has settled.                            *)
(***************************************************************************)

\* The call is suspended at await this.openai.chat.completions.create(...).
Awaiting == [status |-> "awaiting"]

\* The call up to its first suspension: without a client it returns the
\* fallback result; with one it sends the request and awaits the promise.
\* The request carries no timeout and no abort signal.
BeginCategorize ==
  /\ entry # "none"
  /\ outcome = NoOutcome
  /\ outcome' = IF openai THEN Awaiting
                ELSE categorizeConversation(FALSE, conversation, NoResponse)
  /\ UNCHANGED <<parserVars, openai, response, enhanceVars, replayVars, serverVars, pageVars>>

\* The promise of create() settles: it rejects or resolves with a completion.
\* Nothing in the method makes it settle.
OracleSettles ==
  /\ outcome = Awaiting
  /\ response = NoResponse
  /\ \E r \in OracleResponses(conversation) : response' = r
  /\ UNCHANGED <<parserVars, openai, outcome, enhanceVars, replayVars, serverVars, pageVars>>

\* The method resumes after the await and runs to its return.
ResumeCategorize ==
  /\ outcome = Awaiting
  /\ response # NoResponse
  /\ outcome' = categorizeConversation(TRUE, conversation, response)
  /\ UNCHANGED <<parserVars, openai, response, enhanceVars, replayVars, serverVars, pageVars>>

NextAwait ==
  \/ Parse
  \/ BeginCategorize
  \/ OracleSettles
  \/ ResumeCategorize

\* The steps the program itself takes; OracleSettles is the oracle's, which
\* owes no answer.
ProgramStep ==
  \/ Parse
  \/ BeginCategorize
  \/ ResumeCategorize

SpecAwait == InitHighlighter /\ [][NextAwait]_vars

(***************************************************************************)
(* The pipeline run again and again on one input: each run calls           *)
(* ConversationParser.parse and then categorizeConversation, and the       *)
(* RegExp objects of the static sourcePatterns outlive every run.          *)
(***************************************************************************)

\* The pipeline is run at most MaxRuns times on its input.
MaxRuns == 2

ReplayInputs ==
  { <<>>,
    <<"U", "s", "e", "r", ":", " ", "W", "h", "a", "t", " ", "i", "s", " ", "a", " ", "c", "l", "o", "s", "u", "r", "e", "?", "\n", "A", "s", "s", "i", "s", "t", "a", "n", "t", ":", " ", "T", "O", "D", "O", ":", " ", "r", "e", "a", "d", " ", "m", "o", "r", "e">>,
    <<"C", "h", "a", "t", "G", "P", "T", "\n", "U", "s", "e", "r", ":", " ", "I", "s", " ", "t", "h", "i", "s", " ", "r", "e", "a", "l", "l", "y", " ", "o", "k", "?", "\n", "A", "s", "s", "i", "s", "t", "a", "n", "t", ":", " ", "T", "O", "D", "O", ":", " ", "x">>,
    <<"H", "u", "m", "a", "n", ":", " ", "h", "e", "y", "\n", "C", "l", "a", "u", "d", "e", ":", " ", "A", "r", "e", " ", "y", "o", "u", " ", "r", "e", "a", "l", "l", "y", " ", "s", "u", "r", "e", "?">>,
    <<"v", "i", "a", " ", "O", "p", "e", "n", "A", "I", "\n", "U", "s", "e", "r", ":", " ", "h", "i", "\n", "G", "e", "m", "i", "n", "i", ":", " ", Backquote, Backquote, Backquote, "g", Backquote, Backquote, Backquote>>,
    <<"P", "e", "r", "p", "l", "e", "x", "i", "t", "y", " ", "A", "I", "\n", "U", "s", "e", "r", ":", " ", "h", "i">> }

InitReplay ==
  /\ content \in ReplayInputs
  /\ ParserIdle
  /\ openai \in BOOLEAN
  /\ response = NoResponse
  /\ outcome = NoOutcome
  /\ EnhanceIdle
  /\ ReplayIdle /\ ServerIdle /\ PageIdle

\* What a run leaves behind: the conversation parse returned for the source
\* d.source, the response r of the oracle and what categorizeConversation
\* made of both.
RunEnds(d, conv, r) ==
  /\ detected' = d.source
  /\ lastIndex' = d.lastIndex
  /\ conversation' = conv
  /\ entry' = "parse"
  /\ response' = r
  /\ outcome' = categorizeConversation(openai, conv, r)
  /\ runs' = Append(runs, [conversation |-> conv,
                           outcome |-> categorizeConversation(openai, conv, r)])

\* One run of the pipeline.  The oracle, when there is one, answers the first
\* run with any of its responses and every later run with the same response.
RunWith(d, conv) ==
  \E r \in (IF ~openai THEN {NoResponse}
            ELSE IF runs = <<>> THEN OracleResponses(conv) ELSE {response}) :
      RunEnds(d, conv, r)

RunOn(d) == RunWith(d, ParseDetected(d.source, content))

Run ==
  /\ Len(runs) < MaxRuns
  /\ RunOn(DetectFrom(1, 1, lastIndex, content))
  /\ UNCHANGED <<content, openai, enhanceVars, serverVars, pageVars>>

NextReplay == Run

SpecReplay == InitReplay /\ [][NextReplay]_vars

(***************************************************************************)
(* PDFGenerator: initialize, generatePDF and close on one instance, each   *)
(* call running from one await to the next.  The browser that the call c   *)
(* launches is named c.                                                    *)
(***************************************************************************)

\* generatePDF is entered and initialize tests !this.browser: it goes on to
\* await puppeteer.launch, or returns at once.
Initialize(c) ==
  calls' = [calls EXCEPT ![c] = IF browser = 0 THEN "launching" ELSE "initialized"]

\* close() tests this.browser: it goes on to await this.browser.close(), or
\* returns at once.
Close == closing' = browser

\* A caller enters generatePDF.
GeneratePDF(c) ==
  /\ route = "none"
  /\ calls[c] = "none"
  /\ Initialize(c)
  /\ UNCHANGED <<browser, launched, closing, pages>>

\* puppeteer.launch resolves and initialize assigns this.browser.
LaunchResolves(c) ==
  /\ calls[c] = "launching"
  /\ launched' = launched \cup {c}
  /\ browser' = c
  /\ calls' = [calls EXCEPT ![c] = "initialized"]
  /\ UNCHANGED <<closing, pages>>

\* puppeteer.launch rejects: generatePDF throws.
LaunchRejects(c) ==
  /\ calls[c] = "launching"
  /\ calls' = [calls EXCEPT ![c] = "threw"]
  /\ UNCHANGED <<browser, launched, closing, pages>>

\* After initialize: generatePDF throws when this.browser is null, and else
\* awaits this.browser.newPage(), which resolves.
NewPage(c) ==
  /\ calls[c] = "initialized"
  /\ IF browser = 0
     THEN calls' = [calls EXCEPT ![c] = "threw"] /\ pages' = pages
     ELSE calls' = [calls EXCEPT ![c] = "rendering"] /\ pages' = pages \cup {c}
  /\ UNCHANGED <<browser, launched, closing>>

\* this.browser.newPage() rejects: generatePDF throws before its try block.
NewPageRejects(c) ==
  /\ calls[c] = "initialized"
  /\ browser # 0
  /\ calls' = [calls EXCEPT ![c] = "threw"]
  /\ UNCHANGED <<browser, launched, closing, pages>>

\* The try block (setContent, pdf) ends, with the buffer or with an error,
\* and the finally block closes the page.
Render(c) ==
  /\ calls[c] = "rendering"
  /\ pages' = pages \ {c}
  /\ \E ends \in {"returned", "threw"} : calls' = [calls EXCEPT ![c] = ends]
  /\ UNCHANGED <<browser, launched, closing>>

\* A caller enters close() while no close() is under way.
CallClose ==
  /\ route = "none"
  /\ closing \in {0, -1}
  /\ Close
  /\ UNCHANGED <<browser, launched, pages, calls>>

\* this.browser.close() resolves and close() assigns null.
CloseResolves ==
  /\ closing > 0
  /\ launched' = launched \ {closing}
  /\ browser' = 0
  /\ closing' = 0
  /\ UNCHANGED <<pages, calls>>

\* this.browser.close() rejects: close() throws and leaves this.browser; the
\* browser has ended or not.
CloseRejects ==
  /\ closing > 0
  /\ launched' \in {launched, launched \ {closing}}
  /\ closing' = -1
  /\ UNCHANGED <<browser, pages, calls>>

GeneratorStep ==
  \/ \E c \in 1..MaxCalls : LaunchResolves(c) \/ LaunchRejects(c)
  \/ \E c \in 1..MaxCalls : NewPage(c) \/ NewPageRejects(c) \/ Render(c)
  \/ CloseResolves
  \/ CloseRejects

\* The calls of one PDFGenerator, in any interleaving.
InitGenerator ==
  /\ content = <<>>
  /\ ParserIdle
  /\ HighlighterIdle
  /\ EnhanceIdle
  /\ ReplayIdle
  /\ ServerIdle /\ PageIdle

NextGenerator ==
  \/ (\E c \in 1..MaxCalls : GeneratePDF(c))
       /\ UNCHANGED <<parserVars, highlighterVars, enhanceVars, replayVars, route, pageVars>>
  \/ CallClose /\ UNCHANGED <<parserVars, highlighterVars, enhanceVars, replayVars, route, pageVars>>
  \/ GeneratorStep /\ UNCHANGED <<parserVars, highlighterVars, enhanceVars, replayVars, route, pageVars>>

SpecGenerator == InitGenerator /\ [][NextGenerator]_vars

(***************************************************************************)
(* The POST handler of the PDF route, from one await to the next.  Its     *)
(* PDFGenerator is new, and generatePDF is called once on it (call 1).     *)
(***************************************************************************)

\* The handler has sent its response.
Responded == route \in {"200", "400", "500"}

\* request.json() resolves: 400 when conversationText is missing or empty.
PostReceives ==
  /\ route = "none"
  /\ route' = IF content = <<>> THEN "400" ELSE "received"
  /\ UNCHANGED <<parserVars, highlighterVars, generatorVars>>

\* ConversationParser.parse(conversationText)
PostParses ==
  /\ route = "received"
  /\ conversation' = parse(content)
  /\ entry' = "parse"
  /\ route' = "parsed"
  /\ UNCHANGED <<content, detected, highlighterVars, generatorVars>>

\* new SmartHighlighter() and the await of categorizeConversation(parsed).
PostCategorizes ==
  /\ route = "parsed"
  /\ \E r \in (IF openai THEN OracleResponses(conversation) ELSE {NoResponse}) :
        /\ response' = r
        /\ outcome' = categorizeConversation(openai, conversation, r)
  /\ route' = IF outcome'.status = "threw" THEN "500" ELSE "categorized"
  /\ UNCHANGED <<parserVars, openai, generatorVars>>

\* new PDFGenerator() and the call of generatePDF.
PostGenerates ==
  /\ route = "categorized"
  /\ Initialize(1)
  /\ route' = "generating"
  /\ UNCHANGED <<parserVars, highlighterVars, browser, launched, closing, pages>>

\* generatePDF resolved: await pdfGenerator.close().
PostCleansUp ==
  /\ route = "generating"
  /\ calls[1] = "returned"
  /\ Close
  /\ route' = "closing"
  /\ UNCHANGED <<parserVars, highlighterVars, browser, launched, pages, calls>>

\* close() resolved: the response carries the PDF.
PostResponds ==
  /\ route = "closing"
  /\ closing = 0
  /\ route' = "200"
  /\ UNCHANGED <<parserVars, highlighterVars, generatorVars>>

\* The catch block: generatePDF or close() threw.
PostCatches ==
  /\ \/ route = "generating" /\ calls[1] = "threw"
     \/ route = "closing" /\ closing = -1
  /\ route' = "500"
  /\ UNCHANGED <<parserVars, highlighterVars, generatorVars>>

\* The bodies of the requests.
RouteInputs ==
  { <<>>,
    <<"U", "s", "e", "r", ":", " ", "h", "i">>,
    <<"U", "s", "e", "r", ":", " ", "W", "h", "a", "t", " ", "i", "s", " ", "a", " ", "c", "l", "o", "s", "u", "r", "e", "?", "\n", "A", "s", "s", "i", "s", "t", "a", "n", "t", ":", " ", "T", "O", "D", "O", ":", " ", "r", "e", "a", "d", " ", "m", "o", "r", "e", ".">> }

InitRoute ==
  /\ content \in RouteInputs
  /\ ParserIdle
  /\ openai \in BOOLEAN
  /\ response = NoResponse
  /\ outcome = NoOutcome
  /\ EnhanceIdle
  /\ ReplayIdle
  /\ ServerIdle /\ PageIdle

NextRoute ==
  \/ PostReceives /\ UNCHANGED <<enhanceVars, replayVars, pageVars>>
  \/ PostParses /\ UNCHANGED <<enhanceVars, replayVars, pageVars>>
  \/ PostCategorizes /\ UNCHANGED <<enhanceVars, replayVars, pageVars>>
  \/ PostGenerates /\ UNCHANGED <<enhanceVars, replayVars, pageVars>>
  \/ GeneratorStep /\ UNCHANGED <<parserVars, highlighterVars, enhanceVars, replayVars, route, pageVars>>
  \/ PostCleansUp /\ UNCHANGED <<enhanceVars, replayVars, pageVars>>
  \/ PostResponds /\ UNCHANGED <<enhanceVars, replayVars, pageVars>>
  \/ PostCatches /\ UNCHANGED <<enhanceVars, replayVars, pageVars>>

SpecRoute == InitRoute /\ [][NextRoute]_vars

(***************************************************************************)
(* The page component (Home): its event handlers, each from one await to   *)
(* the next.  A handler reads the state of the last render; the values it  *)
(* sets are rendered before the next event.  A value computed by a run of  *)
(* handleProcessConversation carries the number of the run and the text    *)
(* the run read.                                                           *)
(***************************************************************************)

\* handleProcessConversation runs at most MaxProcessRuns times.
MaxProcessRuns == 2

\* What the user types, pastes or uploads.
PageTexts ==
  { <<>>,
    <<" ">>,
    <<"U", "s", "e", "r", ":", " ", "h", "i">>,
    <<"U", "s", "e", "r", ":", " ", "h", "i", "\n", "A", "s", "s", "i", "s", "t", "a", "n", "t", ":", " ", "T", "O", "D", "O", ":", " ", "f", "i", "x", " ", "i", "t">> }

\* getDefaultTemplates(), by layout
DefaultTemplates == <<"academic", "meeting", "study">>

\* The textarea's onChange.
TextareaOnChange ==
  /\ \E text \in PageTexts : conversationText' = text
  /\ UNCHANGED <<parsedConversation, categorization, isProcessing, selectedTemplate,
                 isGeneratingPDF, processing, processed, request>>

\* handleFileUpload: the reader's onload sets the text of the file.
HandleFileUpload ==
  /\ \E file \in PageTexts : conversationText' = file
  /\ UNCHANGED <<parsedConversation, categorization, isProcessing, selectedTemplate,
                 isGeneratingPDF, processing, processed, request>>

\* A click on Process (disabled while isProcessing or when the text trims to
\* nothing): handleProcessConversation up to its await.
HandleProcessConversation ==
  /\ ~isProcessing
  /\ Trim(conversationText) # <<>>
  /\ processed < MaxProcessRuns
  /\ processed' = processed + 1
  /\ isProcessing' = TRUE
  /\ parsedConversation' = [run |-> processed + 1, text |-> conversationText,
                            value |-> parse(conversationText)]
  /\ processing' = parsedConversation'
  /\ UNCHANGED <<conversationText, categorization, selectedTemplate, isGeneratingPDF,
                 request>>

\* After the await: setCategorization and setSelectedTemplate, or the catch
\* block.
ProcessSets(categorized) ==
  IF categorized.status = "threw"
  THEN UNCHANGED <<categorization, selectedTemplate>>
  ELSE /\ categorization' = [run |-> processing.run, text |-> processing.text,
                             value |-> categorized.result]
       /\ selectedTemplate' = DefaultTemplates[1]

\* categorizeConversation(parsed) settles: the rest of handleProcessConversation.
ProcessContinues ==
  /\ processing # Null
  /\ \E r \in (IF openai THEN OracleResponses(processing.value) ELSE {NoResponse}) :
        ProcessSets(categorizeConversation(openai, processing.value, r))
  /\ isProcessing' = FALSE
  /\ processing' = Null
  /\ UNCHANGED <<conversationText, parsedConversation, isGeneratingPDF, processed,
                 request>>

\* The results section is rendered.
ResultsDisplayed == parsedConversation # Null /\ categorization # Null

\* A click on a template of the results section.
SelectTemplate ==
  /\ ResultsDisplayed
  /\ \E i \in 1..Len(DefaultTemplates) : selectedTemplate' = DefaultTemplates[i]
  /\ UNCHANGED <<conversationText, parsedConversation, categorization, isProcessing,
                 isGeneratingPDF, processing, processed, request>>

\* A click on Generate PDF (in the results section; disabled while
\* isGeneratingPDF or without a template): handleGeneratePDF up to its fetch.
HandleGeneratePDF ==
  /\ ResultsDisplayed
  /\ ~isGeneratingPDF
  /\ selectedTemplate # "none"
  /\ IF Trim(conversationText) = <<>>
     THEN UNCHANGED <<isGeneratingPDF, request>>
     ELSE /\ isGeneratingPDF' = TRUE
          /\ request' = [run |-> processed,
                         conversationText |-> conversationText,
                         template |-> selectedTemplate,
                         parsedConversation |-> parsedConversation,
                         categorization |-> categorization]
  /\ UNCHANGED <<conversationText, parsedConversation, categorization, isProcessing,
                 selectedTemplate, processing, processed>>

\* The fetch settles, with the PDF or with an error.
GenerateContinues ==
  /\ isGeneratingPDF
  /\ isGeneratingPDF' = FALSE
  /\ UNCHANGED <<conversationText, parsedConversation, categorization, isProcessing,
                 selectedTemplate, processing, processed, request>>

\* In the browser process.env.OPENAI_API_KEY is not defined (the component is a
\* client component), so its SmartHighlighter has no client.
InitPage ==
  /\ content = <<>>
  /\ ParserIdle
  /\ openai = FALSE
  /\ response = NoResponse
  /\ outcome = NoOutcome
  /\ EnhanceIdle
  /\ ReplayIdle
  /\ ServerIdle
  /\ PageIdle

NextPage ==
  \/ TextareaOnChange /\ UNCHANGED <<parserVars, highlighterVars, enhanceVars, replayVars, serverVars>>
  \/ HandleFileUpload /\ UNCHANGED <<parserVars, highlighterVars, enhanceVars, replayVars, serverVars>>
  \/ HandleProcessConversation /\ UNCHANGED <<parserVars, highlighterVars, enhanceVars, replayVars, serverVars>>
  \/ ProcessContinues /\ UNCHANGED <<parserVars, highlighterVars, enhanceVars, replayVars, serverVars>>
  \/ SelectTemplate /\ UNCHANGED <<parserVars, highlighterVars, enhanceVars, replayVars, serverVars>>
  \/ HandleGeneratePDF /\ UNCHANGED <<parserVars, highlighterVars, enhanceVars, replayVars, serverVars>>
  \/ GenerateContinues /\ UNCHANGED <<parserVars, highlighterVars, enhanceVars, replayVars, serverVars>>

SpecPage == InitPage /\ [][NextPage]_vars

(***************************************************************************)
(* The enhance step: enhanceHighlight and enhanceHighlightsWithAI          *)
(***************************************************************************)

\* enhanceHighlight is applied at most MaxPasses times in a row.
MaxPasses == 2

\* The Highlights handed to the enhance step: contents with and without the
\* strings enhanceHighlight looks for, tags with and without repetitions and
\* with and without the tags it adds, scores below 0.0, within [0.0, 1.0] and
\* above 1.0 (in tenths).
EnhanceContents ==
  { <<"p", "l", "a", "i", "n">>, <<"s", "e", "e", " ", Backquote, Backquote, Backquote, "x", Backquote, Backquote, Backquote>>, <<"h", "t", "t", "p", ":", "/", "/", "a", "?">>, <<"a", " ", "T", "O", "D", "O">>, <<"T", "a", "s", "k">> }
EnhanceTags   == { <<>>, <<"code">>, <<"todo", "todo">>, <<"key", "link">> }
EnhanceScores == { -5, 0, 7, 10, 15 }

EnhanceInputs ==
  { [content |-> c, category |-> "insight", confidence_score |-> score, tags |-> tags,
     notes |-> NoNotes,
     position |-> [messageIndex |-> 0, startChar |-> 0, endChar |-> Len(c)]] :
      c \in EnhanceContents, tags \in EnhanceTags, score \in EnhanceScores }

\* The objects the oracle may return for a highlight h: h with another score
\* and with notes, h with other offsets, or null.
ReviewedHighlights(h) ==
  { HighlightObject(HighlightFields, h.content, score, h.tags, h.position.messageIndex,
                    h.position.startChar, h.position.endChar) : score \in EnhanceScores }
  \cup { HighlightObject(HighlightFields, h.content, 7, h.tags, h.position.messageIndex,
                          h.position.startChar + 1, h.position.endChar + 1) }
  \cup { NullHighlight }

\* What the call of the oracle can come to, as for categorizeConversation; the
\* JSON text is that of an array of at most MaxOracleHighlights objects, of
\* null, or of a value that is no array.
ReviewResponses(h) ==
  { [kind |-> "error"], [kind |-> "empty"], [kind |-> "text"],
    [kind |-> "json", value |-> [shape |-> "null"]],
    [kind |-> "json", value |-> OracleObject("notArray", <<>>, FALSE)] }
  \cup { [kind |-> "json", value |-> OracleObject("array", items, FALSE)] :
           items \in SeqsUpTo(ReviewedHighlights(h), MaxOracleHighlights) }

Resolved(highlights) == [status |-> "resolved", highlights |-> highlights]

InitEnhance ==
  /\ content = <<>>
  /\ ParserIdle
  /\ openai \in BOOLEAN
  /\ response = NoResponse
  /\ outcome = NoOutcome
  /\ highlight \in EnhanceInputs
  /\ passes = 0
  /\ enhanced = highlight
  /\ reviewed = NoOutcome
  /\ ReplayIdle /\ ServerIdle /\ PageIdle

\* One more call of enhanceHighlight, on what the call before returned.
EnhanceHighlight ==
  /\ passes < MaxPasses
  /\ enhanced' = enhanceHighlight(enhanced, conversation)
  /\ passes' = passes + 1
  /\ UNCHANGED <<parserVars, highlighterVars, highlight, reviewed, replayVars, serverVars, pageVars>>

\* One call of enhanceHighlightsWithAI on the highlight; the oracle, when
\* there is one, answers with any of its responses.
EnhanceHighlightsWithAI ==
  /\ reviewed = NoOutcome
  /\ \E r \in (IF openai THEN ReviewResponses(highlight) ELSE {NoResponse}) :
        /\ response' = r
        /\ reviewed' = Resolved(enhanceHighlightsWithAI(openai, <<highlight>>,
                                                        conversation, r))
  /\ UNCHANGED <<parserVars, openai, outcome, highlight, passes, enhanced, replayVars, serverVars, pageVars>>

NextEnhance ==
  \/ EnhanceHighlight
  \/ EnhanceHighlightsWithAI

SpecEnhance == InitEnhance /\ [][NextEnhance]_vars

(***************************************************************************)
(* Properties of ConversationParser (checked under Spec)                   *)
(***************************************************************************)

\* Whether a fingerprint of the dialect source occurs in text.
DialectMatches(source, text) ==
  \E k \in 1..Len(sourcePatterns) :
     /\ sourcePatterns[k].source = source
     /\ \E j \in 1..Len(sourcePatterns[k].patterns) :
           TestIgnoreCase(text, sourcePatterns[k].patterns[j])

DialectOrder == <<"chatgpt", "claude", "gemini", "perplexity">>

\* C6: detectSource is total: for every input, the empty string included, it
\* returns one of the five identifiers, and it returns custom exactly when no
\* fingerprint of any dialect matches.
DetectorTotality ==
  /\ detected = "none" => ENABLED DetectSource
  /\ detected # "none" =>
       /\ detected \in ConversationSource
       /\ (detected = "custom") <=>
            (\A i \in 1..Len(DialectOrder) : ~DialectMatches(DialectOrder[i], content))

\* The empty string gives custom.
DetectorTotalityWitness == content = <<>> /\ detected = "custom"

\* C7: when fingerprints of more than one dialect match, detectSource returns
\* the dialect that comes first in the order chatgpt, claude, gemini,
\* perplexity, wherever in the text the fingerprints occur.
DetectorPriority ==
  LET matching == {i \in 1..Len(DialectOrder) : DialectMatches(DialectOrder[i], content)}
  IN  (detected # "none" /\ Cardinality(matching) > 1) =>
        detected = DialectOrder[CHOOSE i \in matching : \A j \in matching : i <= j]

\* A text in which a fingerprint of claude comes before the first fingerprint
\* of chatgpt, and chatgpt is returned.
DetectorPriorityWitness ==
  /\ detected = "chatgpt"
  /\ DialectMatches("claude", content)
  /\ FirstFingerprint(2, content) < FirstFingerprint(1, content)

\* The role prefixes of the variant that built a conversation.
PrefixesOf(source) ==
  CASE source = "chatgpt"    -> chatgptPrefixes
    [] source = "claude"     -> claudePrefixes
    [] source = "gemini"     -> geminiPrefixes
    [] source = "perplexity" -> perplexityPrefixes
    [] OTHER                 -> customPrefixes

\* A line with the role prefix token its variant recognises removed.
WithoutPrefix(prefixes, line) ==
  LET k == MatchingRule(prefixes, line)
  IN  IF k = 0 THEN line
      ELSE SubSeq(line, PrefixLength(prefixes[k], line) + 1, Len(line))

\* The lines of the input, each without its role prefix token.
InputLines(prefixes, text) ==
  LET lines == Split(text)
  IN  [i \in 1..Len(lines) |-> WithoutPrefix(prefixes, lines[i])]

\* The lines of the emitted messages, in order.
EmittedLines(messages) ==
  Split(Join([i \in 1..Len(messages) |-> messages[i].content], <<"\n">>))

\* Each line trimmed, the blank ones dropped.
SolidLines(lines) ==
  SelectSeq([i \in 1..Len(lines) |-> Trim(lines[i])], LAMBDA l : l # <<>>)

\* C8 as claimed: the contents of the emitted messages reproduce, line for
\* line, the lines of the input with only the role prefix tokens removed.
ReconstructionVerbatim ==
  entry # "none" =>
    EmittedLines(conversation.messages)
      = InputLines(PrefixesOf(conversation.source), content)

\* C8 as amended: the lines of the emitted messages, each trimmed and the blank
\* ones dropped, are in order the lines of the input without their role prefix
\* tokens, each trimmed and the blank ones dropped.  White space around a line
\* and blank lines are not reproduced; every other character is, in order.
ReconstructionNonLoss ==
  entry # "none" =>
    SolidLines(EmittedLines(conversation.messages))
      = SolidLines(InputLines(PrefixesOf(conversation.source), content))

\* A message of two lines that the input held with white space around its
\* first line.
ReconstructionNonLossWitness ==
  /\ entry # "none"
  /\ \E i \in 1..Len(conversation.messages) :
        Len(Split(conversation.messages[i].content)) = 2
  /\ EmittedLines(conversation.messages)
       # InputLines(PrefixesOf(conversation.source), content)

\* C9: no message of a returned conversation has empty or white-space-only
\* content; an empty accumulation is dropped at every flush.
NoEmptyMessage ==
  entry # "none" =>
    \A i \in 1..Len(conversation.messages) : Trim(conversation.messages[i].content) # <<>>

\* The flushes of a scan: one for every line with a role prefix, one at the end.
FlushCount(prefixes, text) ==
  LET lines == Split(text)
  IN  Cardinality({i \in 1..Len(lines) : MatchingRule(prefixes, lines[i]) > 0}) + 1

\* A scan that emitted a message and dropped an empty accumulation.
NoEmptyMessageWitness ==
  /\ entry # "none"
  /\ Len(conversation.messages) > 0
  /\ Len(conversation.messages) < FlushCount(PrefixesOf(conversation.source), content)

\* The generic title of each variant.
GenericTitle(source) ==
  CASE source = "chatgpt"    -> <<"C", "h", "a", "t", "G", "P", "T", " ", "C", "o", "n", "v", "e", "r", "s", "a", "t", "i", "o", "n">>
    [] source = "claude"     -> <<"C", "l", "a", "u", "d", "e", " ", "C", "o", "n", "v", "e", "r", "s", "a", "t", "i", "o", "n">>
    [] source = "gemini"     -> <<"G", "e", "m", "i", "n", "i", " ", "C", "o", "n", "v", "e", "r", "s", "a", "t", "i", "o", "n">>
    [] source = "perplexity" -> <<"P", "e", "r", "p", "l", "e", "x", "i", "t", "y", " ", "C", "o", "n", "v", "e", "r", "s", "a", "t", "i", "o", "n">>
    [] OTHER                 -> <<"C", "u", "s", "t", "o", "m", " ", "C", "o", "n", "v", "e", "r", "s", "a", "t", "i", "o", "n">>

\* C10: parse returns for every input the conversation of the variant that
\* detectSource selects (Parse is defined on every input: no guard but the one
\* call, no partial operator), and for an empty or white-space-only input it
\* returns no messages, the generic title of the selected variant and the
\* category general.
EmptyInputDegrades ==
  /\ entry = "parse" => conversation.source = detectSource(content)
  /\ (entry = "parse" /\ Trim(content) = <<>>) =>
       /\ conversation.source = detectSource(content)
       /\ conversation.messages = <<>>
       /\ conversation.title = GenericTitle(conversation.source)
       /\ conversation.category = "general"

\* A white-space-only input of more than one line, parsed.
EmptyInputDegradesWitness ==
  /\ entry = "parse"
  /\ Trim(content) = <<>>
  /\ Len(Split(content)) > 1
  /\ Includes(content, <<" ">>)

\* The formats the README documents: the token that starts the user's line and
\* the token that starts the assistant's line.
DocumentedFormats ==
  { [source |-> "chatgpt",    user |-> <<"U", "s", "e", "r", ":">>,  assistant |-> <<"A", "s", "s", "i", "s", "t", "a", "n", "t", ":">>],
    [source |-> "claude",     user |-> <<"H", "u", "m", "a", "n", ":">>, assistant |-> <<"C", "l", "a", "u", "d", "e", ":">>],
    [source |-> "gemini",     user |-> <<"U", "s", "e", "r", ":">>,  assistant |-> <<"G", "e", "m", "i", "n", "i", ":">>],
    [source |-> "perplexity", user |-> <<"U", "s", "e", "r", ":">>,  assistant |-> <<"P", "e", "r", "p", "l", "e", "x", "i", "t", "y", ":">>] }

\* What follows the token on a line that begins with it, trimmed.
AfterToken(line, token) == Trim(SubSeq(line, Len(token) + 1, Len(line)))

\* The line is the token followed by some text.
IsPrefixedLine(line, token) == StartsWith(line, token) /\ AfterToken(line, token) # <<>>

\* The text is a transcript in format f of one line of the user followed by
\* one line of the assistant.
IsTranscriptOf(f, text) ==
  /\ Len(Split(text)) = 2
  /\ IsPrefixedLine(Split(text)[1], f.user)
  /\ IsPrefixedLine(Split(text)[2], f.assistant)

\* C17: parse of a transcript in a documented format, made of one line of the
\* user followed by one line of the assistant, returns exactly two messages,
\* the first of the user and the second of the assistant, each the text of its
\* line without the prefix.
DocumentedFormatsParse ==
  \A f \in DocumentedFormats :
    (entry = "parse" /\ IsTranscriptOf(f, content)) =>
      conversation.messages =
        << [role |-> "user",      content |-> AfterToken(Split(content)[1], f.user)],
           [role |-> "assistant", content |-> AfterToken(Split(content)[2], f.assistant)] >>

\* What does hold: the two messages are returned whenever the variant that
\* detectSource selects is the one of the format or the generic one.
DocumentedFormatsParseInDialect ==
  \A f \in DocumentedFormats :
    (/\ entry = "parse"
     /\ IsTranscriptOf(f, content)
     /\ conversation.source \in {f.source, "custom"}) =>
      conversation.messages =
        << [role |-> "user",      content |-> AfterToken(Split(content)[1], f.user)],
           [role |-> "assistant", content |-> AfterToken(Split(content)[2], f.assistant)] >>

\* The tokens of the prefixes that the line begins with in some spelling,
\* upper or lower case.
SpelledTokens(prefixes, line) ==
  {t \in UNION {Range(prefixes[k].tokens) : k \in DOMAIN prefixes} :
     StartsWith(ToLowerCase(line), ToLowerCase(t))}

\* The line with the token it begins with, in whatever case, spelled as the
\* variant spells it.
CanonicalLine(prefixes, line) ==
  IF SpelledTokens(prefixes, line) = {} THEN line
  ELSE LET t == CHOOSE t \in SpelledTokens(prefixes, line) : TRUE
       IN  t \o SubSeq(line, Len(t) + 1, Len(line))

CanonicalLines(prefixes, lines) ==
  [i \in DOMAIN lines |-> CanonicalLine(prefixes, lines[i])]

\* C18: in every variant a line that begins with an upper-case or lower-case
\* spelling of a role marker is treated as the line with the canonical
\* spelling is: the messages of a text are those of the text with every
\* marker spelled canonically.
CaseInsensitivePrefixes ==
  entry # "none" =>
    conversation.messages =
      Reconstruct(PrefixesOf(conversation.source),
                  Join(CanonicalLines(PrefixesOf(conversation.source), Split(content)),
                       <<"\n">>))

\* What does hold: the generic variant matches its markers in any case.
CaseInsensitiveInCustom ==
  (entry # "none" /\ conversation.source = "custom") =>
    conversation.messages =
      Reconstruct(customPrefixes,
                  Join(CanonicalLines(customPrefixes, Split(content)), <<"\n">>))

\* A text with a marker in another spelling, parsed by the generic variant.
CaseInsensitiveInCustomWitness ==
  /\ entry # "none"
  /\ conversation.source = "custom"
  /\ Join(CanonicalLines(customPrefixes, Split(content)), <<"\n">>) # content
  /\ Len(conversation.messages) = 2

\* The lines that begin with a role prefix of the variant.
PrefixLines(prefixes, lines) ==
  {i \in 1..Len(lines) : MatchingRule(prefixes, lines[i]) > 0}

\* The stretch a line belongs to, given the lines that begin with a role
\* prefix: the last such line at or before it, 0 for the lines before the
\* first role prefix.
StretchOf(starts, i) ==
  LET before == {b \in starts \cup {0} : b <= i}
  IN  CHOOSE b \in before : \A c \in before : c <= b

\* The role the input gives a stretch: the role of the prefix that opens it,
\* user for the stretch before the first prefix.
StretchRole(prefixes, lines, b) ==
  IF b = 0 THEN "user" ELSE prefixes[MatchingRule(prefixes, lines[b])].role

\* The lines that are not blank once the prefix is removed.
TextLines(prefixes, lines) ==
  {i \in 1..Len(lines) : Trim(WithoutPrefix(prefixes, lines[i])) # <<>>}

\* The stretches with text, each named by the line that opens it.
SolidStretches(starts, texts) == {StretchOf(starts, i) : i \in texts}

\* The first line with text of the stretch b.
FirstText(starts, texts, b) ==
  LET mine == {i \in texts : StretchOf(starts, i) = b}
  IN  CHOOSE i \in mine : \A k \in mine : i <= k

\* The messages are the stretches with text in the order of the input, each
\* with the role of its stretch and beginning with the first text of it.
InStretchOrder(messages, prefixes, lines, starts, texts) ==
  /\ Len(messages) = Cardinality(SolidStretches(starts, texts))
  /\ \A b \in SolidStretches(starts, texts) :
       LET j == Cardinality({c \in SolidStretches(starts, texts) : c <= b})
       IN  /\ messages[j].role = StretchRole(prefixes, lines, b)
           /\ Trim(Split(messages[j].content)[1])
                = Trim(WithoutPrefix(prefixes, lines[FirstText(starts, texts, b)]))

\* C19: the text accumulated up to a line with a role prefix is emitted with
\* the role that was current before that line, never with the role the line
\* names; the text before the first prefix is emitted with the role user; the
\* messages come in the order in which their first lines stand in the input.
EmittedWithPreviousRole ==
  entry # "none" =>
    InStretchOrder(conversation.messages,
                   PrefixesOf(conversation.source),
                   Split(content),
                   PrefixLines(PrefixesOf(conversation.source), Split(content)),
                   TextLines(PrefixesOf(conversation.source), Split(content)))

\* Text before the first role prefix, emitted as the user's, followed by a
\* message of another role.
EmittedWithPreviousRoleWitness ==
  /\ entry # "none"
  /\ \E i \in TextLines(PrefixesOf(conversation.source), Split(content)) :
        StretchOf(PrefixLines(PrefixesOf(conversation.source), Split(content)), i) = 0
  /\ PrefixLines(PrefixesOf(conversation.source), Split(content)) # {}
  /\ Len(conversation.messages) = 2
  /\ conversation.messages[1].role = "user"
  /\ conversation.messages[2].role # "user"

\* C20: the title of a returned conversation is the first line of the first
\* message when that message is the user's and the line is shorter than 100
\* characters; with no messages, with a first message of another role, or
\* with a first line of 100 characters or more, it is the generic title of
\* the variant.
TitleDerivation ==
  entry # "none" =>
    IF /\ conversation.messages # <<>>
       /\ conversation.messages[1].role = "user"
       /\ Len(Split(conversation.messages[1].content)[1]) < TitleLimit
    THEN conversation.title = Split(conversation.messages[1].content)[1]
    ELSE conversation.title = GenericTitle(conversation.source)

\* A first message of the user whose first line has exactly 100 characters,
\* followed by a second message.
TitleDerivationWitness ==
  /\ entry # "none"
  /\ Len(conversation.messages) = 2
  /\ conversation.messages[1].role = "user"
  /\ Len(Split(conversation.messages[1].content)[1]) = TitleLimit
  /\ conversation.title = GenericTitle(conversation.source)

\* The conversation has a message of the user that begins with the text.
HasUserMessage(conv, text) ==
  \E j \in 1..Len(conv.messages) :
     /\ conv.messages[j].role = "user"
     /\ Trim(Split(conv.messages[j].content)[1]) = text

\* C27: for every input, parse takes a line that begins with "User:" as the
\* start of a message of the user and strips the prefix from its content,
\* whichever variant detectSource selected.
UserPrefixInEveryDialect ==
  entry = "parse" =>
    \A l \in 1..Len(Split(content)) :
      IsPrefixedLine(Split(content)[l], <<"U", "s", "e", "r", ":">>) =>
        HasUserMessage(conversation, AfterToken(Split(content)[l], <<"U", "s", "e", "r", ":">>))

\* What does hold: every variant but the one of Claude does so.
UserPrefixOutsideClaude ==
  (entry = "parse" /\ conversation.source # "claude") =>
    \A l \in 1..Len(Split(content)) :
      IsPrefixedLine(Split(content)[l], <<"U", "s", "e", "r", ":">>) =>
        HasUserMessage(conversation, AfterToken(Split(content)[l], <<"U", "s", "e", "r", ":">>))

(***************************************************************************)
(* Properties of SmartHighlighter.categorizeConversation (checked under    *)
(* SpecHighlighter)                                                        *)
(***************************************************************************)

\* The highlight h lies in the conversation: its message index is one of the
\* conversation, and the trimmed text at its offsets is its trimmed content.
RoundTrips(h, conv) ==
  /\ 0 <= h.position.messageIndex
  /\ h.position.messageIndex < Len(conv.messages)
  /\ Trim(Substring(conv.messages[h.position.messageIndex + 1].content,
                    h.position.startChar, h.position.endChar))
       = Trim(h.content)

\* C1: every highlight of the result categorizeConversation returned, with and
\* without an oracle, has a message index of the conversation, and the text of
\* that message between startChar and endChar, trimmed, is the trimmed content
\* of the highlight.
RoundTripIntegrity ==
  outcome.status = "returned" =>
    \A k \in 1..Len(outcome.result.highlights) :
      RoundTrips(outcome.result.highlights[k], conversation)

\* An object of the highlights array that is no Highlight: null, or an object
\* that lacks content, tags or position.
IllShapedHighlight(h) == h.shape = "null" \/ h.fields # HighlightFields

\* A JSON value that has not the shape of a CategorizationResult: null, an
\* object without a highlights array, or one whose array holds an object that
\* is no Highlight.
UnexpectedShape(value) ==
  \/ value.shape = "null"
  \/ value.highlights.kind # "array"
  \/ \E k \in 1..Len(value.highlights.items) :
        IllShapedHighlight(value.highlights.items[k])

\* The call of the oracle failed: in transport, with no content, with text
\* that is no JSON, or with JSON of another shape than the expected one.
OracleFailed(r) ==
  \/ r.kind \in {"error", "empty", "text"}
  \/ r.kind = "json" /\ UnexpectedShape(r.value)

\* The half of C2 about throwing: a call of categorizeConversation returns
\* a result whatever the oracle did.
NeverRejects == outcome # NoOutcome => outcome.status = "returned"

\* C2: categorizeConversation never throws, and when the oracle is configured
\* and its call fails in transport, yields no content, yields text that is no
\* JSON or yields JSON that has not the expected shape, the result returned is
\* the result of fallbackCategorization.
OracleFailureFallsBack ==
  outcome # NoOutcome =>
    /\ outcome.status = "returned"
    /\ (openai /\ OracleFailed(response)) =>
         outcome.result = fallbackCategorization(conversation)

\* C3: when the oracle is configured and returns text that is no JSON, the
\* result of categorizeConversation is, field for field, the result of
\* fallbackCategorization for the conversation, which is the result without an
\* oracle.
InvalidJsonIsFallback ==
  (outcome # NoOutcome /\ openai /\ response.kind = "text") =>
    /\ outcome = Returned(fallbackCategorization(conversation))
    /\ outcome = categorizeConversation(FALSE, conversation, NoResponse)

\* The oracle returned text that is no JSON for a conversation in which the
\* extractors find highlights, and the call has returned.
InvalidJsonIsFallbackWitness ==
  /\ openai
  /\ response.kind = "text"
  /\ outcome.status = "returned"
  /\ outcome.result.highlights # <<>>
  /\ outcome.result.action_items # <<>>

\* The conversation of the closure scenario: a user message and an assistant
\* message.
ClosureQuestion == <<"W", "h", "a", "t", " ", "i", "s", " ", "a", " ", "c", "l", "o", "s", "u", "r", "e", "?">>
ClosureAnswer ==
  <<"A", " ", "c", "l", "o", "s", "u", "r", "e", " ", "i", "s", " ", "a", " ", "f", "u", "n", "c", "t", "i", "o", "n", " ", "b", "u", "n", "d", "l", "e", "d", " ", "w", "i", "t", "h", " ", "i", "t", "s", " ", "l", "e", "x", "i", "c", "a", "l", " ", "s", "c", "o", "p", "e", ".", " ", "T", "O", "D", "O", ":", " ", "r", "e", "a", "d", " ", "m", "o", "r", "e", ".">>

IsClosureConversation(conv) ==
  /\ Len(conv.messages) = 2
  /\ conv.messages[1] = [role |-> "user", content |-> ClosureQuestion]
  /\ conv.messages[2] = [role |-> "assistant", content |-> ClosureAnswer]

\* categorizeConversation has returned the result of the fallback path.
FallbackReturned == ~openai /\ outcome.status = "returned"

\* The highlights of a category in a result, in order.
OfCategory(result, category) ==
  SelectSeq(result.highlights, LAMBDA h : h.category = category)

\* C11 as stated: without an oracle the closure conversation yields exactly
\* one question highlight, with the content of the user message.
UserQuestionExtracted ==
  (FallbackReturned /\ IsClosureConversation(conversation)) =>
    /\ Len(OfCategory(outcome.result, "question")) = 1
    /\ OfCategory(outcome.result, "question")[1].content = ClosureQuestion

\* C11, amended: without an oracle the closure conversation yields no question
\* highlight and an empty questions list; no highlight of a fallback result
\* lies in a user message; and a question of more than 10 characters in an
\* assistant message is a question highlight of that message.
AssistantQuestionsOnly ==
  FallbackReturned =>
    /\ IsClosureConversation(conversation) =>
         /\ OfCategory(outcome.result, "question") = <<>>
         /\ outcome.result.questions = <<>>
    /\ \A k \in 1..Len(outcome.result.highlights) :
         conversation.messages[outcome.result.highlights[k].position.messageIndex + 1].role
           # "user"
    /\ \A i \in 1..Len(conversation.messages) :
         conversation.messages[i]
           = [role |-> "assistant", content |-> <<"I", "s", " ", "i", "t", " ", "o", "k", "?", " ", "Y", "e", "s", ".", " ", "A", "r", "e", " ", "y", "o", "u", " ", "r", "e", "a", "l", "l", "y", " ", "s", "u", "r", "e", "?">>]
         => \E k \in 1..Len(outcome.result.highlights) :
              /\ outcome.result.highlights[k].category = "question"
              /\ outcome.result.highlights[k].content = <<"A", "r", "e", " ", "y", "o", "u", " ", "r", "e", "a", "l", "l", "y", " ", "s", "u", "r", "e", "?">>
              /\ outcome.result.highlights[k].position.messageIndex = i - 1

\* The closure conversation went through the fallback path.
AssistantQuestionsOnlyWitness ==
  /\ FallbackReturned
  /\ IsClosureConversation(conversation)
  /\ outcome.result.questions = <<>>

\* C12 as stated: without an oracle the closure conversation yields exactly
\* one action_item highlight, with content "read more.", and action_items is
\* the list of that content.
MidLineMarkerExtracted ==
  (FallbackReturned /\ IsClosureConversation(conversation)) =>
    /\ Len(OfCategory(outcome.result, "action_item")) = 1
    /\ OfCategory(outcome.result, "action_item")[1].content = <<"r", "e", "a", "d", " ", "m", "o", "r", "e", ".">>
    /\ outcome.result.action_items = << <<"r", "e", "a", "d", " ", "m", "o", "r", "e", ".">> >>

\* C12, amended: without an oracle the closure conversation yields no
\* action_item highlight and an empty action_items list, its marker following
\* other text on the line; an assistant message that begins with the marker
\* yields the rest of the line as an action item.
LineStartMarkersOnly ==
  FallbackReturned =>
    /\ IsClosureConversation(conversation) =>
         /\ OfCategory(outcome.result, "action_item") = <<>>
         /\ outcome.result.action_items = <<>>
    /\ (\E i \in 1..Len(conversation.messages) :
          conversation.messages[i] = [role |-> "assistant", content |-> <<"T", "O", "D", "O", ":", " ", "f", "i", "x", " ", "i", "t">>])
       => \E k \in 1..Len(outcome.result.action_items) :
            outcome.result.action_items[k] = <<"f", "i", "x", " ", "i", "t">>

\* The fallback path ran over the closure conversation and found nothing.
LineStartMarkersOnlyWitness ==
  /\ FallbackReturned
  /\ IsClosureConversation(conversation)
  /\ outcome.result.highlights = <<>>
  /\ outcome.result.action_items = <<>>

\* The content is one fenced block: a fence at its start, a fence at its end
\* and none between.
IsFencedBlock(text) ==
  /\ Len(text) >= 2 * Len(Fence)
  /\ {p \in 0..Len(text) : OccursAt(text, Fence, p)} = {0, Len(text) - Len(Fence)}

\* The highlights of a result that lie in the message at messageIndex.
InMessage(result, messageIndex) ==
  SelectSeq(result.highlights, LAMBDA h : h.position.messageIndex = messageIndex)

\* The one highlight the claim expects for a message that is a fenced block.
IsWholeBlockHighlight(hs, text) ==
  /\ Len(hs) = 1
  /\ hs[1].category = "code"
  /\ hs[1].confidence_score = 9
  /\ "code" \in Range(hs[1].tags)
  /\ hs[1].content = text
  /\ hs[1].position.startChar = 0
  /\ hs[1].position.endChar = Len(text)

\* C13 as stated: on the fallback path a message that is one fenced block
\* yields exactly one highlight, whatever its role: category code, score 0.9,
\* a tag code, the block as content, the whole message as position.
FencedBlockAnyRole ==
  FallbackReturned =>
    \A i \in 1..Len(conversation.messages) :
      IsFencedBlock(conversation.messages[i].content) =>
        IsWholeBlockHighlight(InMessage(outcome.result, i - 1),
                              conversation.messages[i].content)

\* The highlights of category code among hs.
CodeAmong(hs) == SelectSeq(hs, LAMBDA h : h.category = "code")

\* C13, amended: on the fallback path an assistant message that is one fenced
\* block yields exactly one highlight of category code, which is that one
\* (beside it the highlights the other extractors find in the body), and a
\* message of another role that is one fenced block yields none.
FencedBlockOfAssistant ==
  FallbackReturned =>
    \A i \in 1..Len(conversation.messages) :
      IsFencedBlock(conversation.messages[i].content) =>
        IF conversation.messages[i].role = "assistant"
        THEN IsWholeBlockHighlight(CodeAmong(InMessage(outcome.result, i - 1)),
                                   conversation.messages[i].content)
        ELSE InMessage(outcome.result, i - 1) = <<>>

\* The fallback path ran over an assistant message and a user message that
\* are one fenced block each; the assistant's spans lines and holds an action
\* marker, which gave a second highlight.
FencedBlockOfAssistantWitness ==
  /\ FallbackReturned
  /\ \E i, j \in 1..Len(conversation.messages) :
       /\ conversation.messages[i].role = "assistant"
       /\ IsFencedBlock(conversation.messages[i].content)
       /\ Includes(conversation.messages[i].content, <<"\n">>)
       /\ Len(InMessage(outcome.result, i - 1)) = 2
       /\ conversation.messages[j].role = "user"
       /\ IsFencedBlock(conversation.messages[j].content)

\* The position does not lie in the conversation: the message index is
\* outside [0, messages.length), or 0 <= startChar < endChar <= length of the
\* message content does not hold.
OutOfBounds(position, conv) ==
  \/ position.messageIndex < 0
  \/ position.messageIndex >= Len(conv.messages)
  \/ position.startChar < 0
  \/ position.startChar >= position.endChar
  \/ position.endChar > Len(conv.messages[position.messageIndex + 1].content)

\* The objects with a position in the array the oracle returned.
PositionedItems ==
  IF response.kind = "json" /\ response.value.shape = "object"
     /\ response.value.highlights.kind = "array"
  THEN SelectSeq(response.value.highlights.items,
                 LAMBDA h : h.shape = "object" /\ "position" \in h.fields)
  ELSE <<>>

\* C14: validateHighlight returns false, and does not throw, for every
\* highlight whose position does not lie in the conversation, whatever its
\* content (none included); and no highlight of a result that
\* categorizeConversation returned with an oracle has such a position.
OutOfBoundsRejected ==
  (openai /\ outcome.status = "returned") =>
    /\ \A k \in 1..Len(PositionedItems) :
         OutOfBounds(PositionedItems[k].position, conversation)
           => validateHighlight(PositionedItems[k], conversation) = "false"
    /\ \A k \in 1..Len(outcome.result.highlights) :
         ~OutOfBounds(outcome.result.highlights[k].position, conversation)

\* The oracle returned a highlight with the content of the message and an
\* end past its length, and one without content; the call returned the
\* oracle's summary and no highlight.
OutOfBoundsRejectedWitness ==
  /\ openai
  /\ outcome.status = "returned"
  /\ \E k \in 1..Len(PositionedItems) :
       /\ PositionedItems[k].fields = HighlightFields
       /\ PositionedItems[k].position.messageIndex = 0
       /\ Len(conversation.messages) > 0
       /\ PositionedItems[k].content = conversation.messages[1].content
       /\ PositionedItems[k].position.endChar > Len(conversation.messages[1].content)
  /\ outcome.result.highlights = <<>>
  /\ outcome.result.summary = response.value.summary
  /\ response.value.summary # <<>>

\* C15 (checked under SpecAwait): every call of categorizeConversation
\* eventually returns a result, also when the oracle never answers: a call
\* that awaits the oracle always has a step of the program itself to take
\* (the expiry of a time bound, or the rest of the method once the promise
\* has settled), so that it cannot stay suspended for ever.
PendingCallProceeds == outcome = Awaiting => ENABLED ProgramStep

\* What does hold under SpecAwait: a call that is past its await has the
\* response of the oracle, and a call without a client never awaits.
ReturnsOnceSettled ==
  /\ (outcome.status = "returned" /\ openai) => response # NoResponse
  /\ outcome = Awaiting => openai

\* categorizeConversation returned what fallbackCategorization returned: there
\* is no client, create() rejected, the response held no content, or its
\* content was no JSON text.
OnFallbackPath ==
  /\ outcome.status = "returned"
  /\ ~openai \/ response.kind \in {"error", "empty", "text"}

\* The messages a result's highlights refer to.
HighlightedMessages(result) ==
  {result.highlights[k].position.messageIndex : k \in 1..Len(result.highlights)}

\* C21: on the fallback path every highlight of the result refers to a message
\* of the assistant; the messages of the user and of the system contribute no
\* highlight.
FallbackFromAssistantOnly ==
  OnFallbackPath =>
    \A messageIndex \in HighlightedMessages(outcome.result) :
      /\ messageIndex \in 0..(Len(conversation.messages) - 1)
      /\ conversation.messages[messageIndex + 1].role = "assistant"

\* The fallback found highlights in a conversation in which the user wrote a
\* fenced block and the system a question.
FallbackFromAssistantOnlyWitness ==
  /\ OnFallbackPath
  /\ outcome.result.highlights # <<>>
  /\ \E i \in 1..Len(conversation.messages) :
        /\ conversation.messages[i].role = "user"
        /\ Includes(conversation.messages[i].content, <<Backquote, Backquote, Backquote>>)
  /\ \E i \in 1..Len(conversation.messages) :
        /\ conversation.messages[i].role = "system"
        /\ Includes(conversation.messages[i].content, <<"?">>)

\* The offset in a line after its optional bullet and the white space that
\* follows the bullet.
AfterBullet(line) ==
  IF CharAt(line, 0) \in {"-", "*", Bullet} THEN SkipWhiteSpace(line, 1) ELSE 0

\* The markers a line begins with, in any letter case, after its optional
\* bullet.
MarkersOf(line) ==
  {k \in 1..Len(actionMarkers) :
     OccursAt(ToLowerCase(line), ToLowerCase(actionMarkers[k]), AfterBullet(line))}

\* What follows the marker and its optional colon on the line, trimmed.
AfterMarker(line, k) ==
  LET r == AfterBullet(line) + Len(actionMarkers[k])
  IN  Trim(SubSeq(line, (IF CharAt(line, r) = ":" THEN r + 1 ELSE r) + 1, Len(line)))

\* The texts a line asks for as action items: the remainder of a line that
\* begins with a marker, when it is not empty.
ActionTexts(line) == {AfterMarker(line, k) : k \in MarkersOf(line)} \ {<<>>}

\* The result holds the action item with this content for the message.
HasActionItem(result, messageIndex, text) ==
  \E k \in 1..Len(result.highlights) :
     /\ result.highlights[k].position.messageIndex = messageIndex
     /\ result.highlights[k].category = "action_item"
     /\ result.highlights[k].confidence_score = 8
     /\ result.highlights[k].tags = <<"action", "todo">>
     /\ result.highlights[k].content = text

\* C22: every line of an assistant message that begins, after an optional
\* bullet, with one of the markers in any letter case and an optional colon,
\* followed by text, yields a highlight of category action_item with
\* confidence 0.8, tags action and todo, and the trimmed remainder of the line
\* as content; also a marker line that directly follows a marker line.
EveryMarkerLineExtracted ==
  FallbackReturned =>
    \A i \in 1..Len(conversation.messages) :
      conversation.messages[i].role = "assistant" =>
        \A l \in 1..Len(Split(conversation.messages[i].content)) :
          \A text \in ActionTexts(Split(conversation.messages[i].content)[l]) :
            HasActionItem(outcome.result, i - 1, text)

\* What does hold: the first line of an assistant message that begins with a
\* marker is extracted.
FirstMarkerLineExtracted ==
  FallbackReturned =>
    \A i \in 1..Len(conversation.messages) :
      conversation.messages[i].role = "assistant" =>
        \A text \in ActionTexts(Split(conversation.messages[i].content)[1]) :
          HasActionItem(outcome.result, i - 1, text)

\* C23: the highlights of a fallback result are ordered by non-decreasing
\* message index, and within one message the highlights of one extractor (of
\* one category) stand in the order of their matches, by increasing start
\* offset.
FallbackOrdered ==
  FallbackReturned =>
    \A k, l \in 1..Len(outcome.result.highlights) :
      k < l =>
        /\ outcome.result.highlights[k].position.messageIndex
             <= outcome.result.highlights[l].position.messageIndex
        /\ (/\ outcome.result.highlights[k].position.messageIndex
                = outcome.result.highlights[l].position.messageIndex
            /\ outcome.result.highlights[k].category = outcome.result.highlights[l].category)
           => outcome.result.highlights[k].position.startChar
                < outcome.result.highlights[l].position.startChar

\* A result with highlights of two messages, two action items of one message
\* among them, and a highlight of another extractor that starts before the
\* one it follows.
FallbackOrderedWitness ==
  /\ FallbackReturned
  /\ Cardinality(HighlightedMessages(outcome.result)) >= 2
  /\ \E k, l \in 1..Len(outcome.result.highlights) :
        /\ k < l
        /\ outcome.result.highlights[k].position.messageIndex
             = outcome.result.highlights[l].position.messageIndex
        /\ outcome.result.highlights[k].category = "action_item"
        /\ outcome.result.highlights[l].category = "action_item"
  /\ \E k, l \in 1..Len(outcome.result.highlights) :
        /\ k < l
        /\ outcome.result.highlights[k].position.messageIndex
             = outcome.result.highlights[l].position.messageIndex
        /\ outcome.result.highlights[k].position.startChar
             > outcome.result.highlights[l].position.startChar

\* The response of the oracle was structurally valid: JSON text of an object
\* with a highlights array that validateAndEnhanceResult went through.
OracleAccepted ==
  /\ openai
  /\ outcome.status = "returned"
  /\ response.kind = "json"
  /\ ~ParseAndValidate(conversation, response).threw

\* The list of the result is the one the oracle supplied, or else the contents
\* of the accepted highlights of the category.
SuppliedOrRecomputed(supplied, list, highlights, category) ==
  IF supplied.defined THEN list = supplied.value
  ELSE list = ContentsOf(highlights, category)

\* C24: on a structurally valid response that does not supply action_items,
\* resources or questions, the list of the result is recomputed from the
\* accepted highlights of that category; a list the oracle supplied is kept.
ListsRecomputed ==
  OracleAccepted =>
    /\ SuppliedOrRecomputed(response.value.action_items, outcome.result.action_items,
                            outcome.result.highlights, "action_item")
    /\ SuppliedOrRecomputed(response.value.resources, outcome.result.resources,
                            outcome.result.highlights, "resource")
    /\ SuppliedOrRecomputed(response.value.questions, outcome.result.questions,
                            outcome.result.highlights, "question")

\* What does hold: a list the oracle supplied is kept, and a list it did not
\* supply is empty, whatever the accepted highlights are.
ListsDefaultToEmpty ==
  OracleAccepted =>
    /\ outcome.result.action_items = OrEmpty(response.value.action_items)
    /\ outcome.result.resources = OrEmpty(response.value.resources)
    /\ outcome.result.questions = OrEmpty(response.value.questions)

\* The position lies in the conversation:
\* 0 <= startChar < endChar <= length of the content of its message.
WithinMessage(position, conv) ==
  /\ position.messageIndex \in 0..(Len(conv.messages) - 1)
  /\ 0 <= position.startChar
  /\ position.startChar < position.endChar
  /\ position.endChar <= Len(conv.messages[position.messageIndex + 1].content)

\* C26: every highlight of the fallback extractors (code, action item,
\* question) has 0 <= startChar < endChar <= the length of the content of the
\* message it refers to, as the geometric checks of validateHighlight demand.
FallbackGeometry ==
  FallbackReturned =>
    \A k \in 1..Len(outcome.result.highlights) :
      WithinMessage(outcome.result.highlights[k].position, conversation)

\* A result with highlights of the three extractors, one that ends where its
\* message ends and one that starts inside its message.
FallbackGeometryWitness ==
  /\ FallbackReturned
  /\ {"code", "action_item", "question"}
       \subseteq {outcome.result.highlights[k].category :
                    k \in 1..Len(outcome.result.highlights)}
  /\ \E k \in 1..Len(outcome.result.highlights) :
        /\ outcome.result.highlights[k].category = "action_item"
        /\ outcome.result.highlights[k].position.endChar
             = Len(conversation.messages[
                     outcome.result.highlights[k].position.messageIndex + 1].content)
  /\ \E k \in 1..Len(outcome.result.highlights) :
        outcome.result.highlights[k].position.startChar > 0

(***************************************************************************)
(* Properties of the enhance step (checked under SpecEnhance)              *)
(***************************************************************************)

\* 0.0 <= score <= 1.0
InUnitInterval(score) == 0 <= score /\ score <= One

\* enhanceHighlightsWithAI went through its map: the oracle returned the JSON
\* text of an array of objects.
ReclampRan ==
  /\ openai
  /\ response.kind = "json"
  /\ response.value.shape = "object"
  /\ response.value.highlights.kind = "array"
  /\ \A k \in 1..Len(response.value.highlights.items) :
        response.value.highlights.items[k].shape = "object"

\* C4: a highlight that enhanceHighlight returned, and every highlight that
\* the map of enhanceHighlightsWithAI returned, has a confidence_score between
\* 0.0 and 1.0, whatever the score was before.
ScoreBound ==
  /\ passes >= 1 => InUnitInterval(enhanced.confidence_score)
  /\ (reviewed # NoOutcome /\ ReclampRan) =>
       \A k \in 1..Len(reviewed.highlights) :
         InUnitInterval(reviewed.highlights[k].confidence_score)

\* C5: enhanceHighlight applied to a highlight that enhanceHighlight returned
\* returns a highlight with the same set of tags and the same
\* confidence_score.
EnhanceIdempotent ==
  [][(passes >= 1 /\ passes' = passes + 1) =>
       /\ Range(enhanced'.tags) = Range(enhanced.tags)
       /\ enhanced'.confidence_score = enhanced.confidence_score]_vars

\* enhanceHighlight has been applied twice to a highlight whose tags and
\* score the first call changed.
EnhanceIdempotentWitness ==
  /\ passes = 2
  /\ Range(enhanced.tags) # Range(highlight.tags)
  /\ enhanced.confidence_score # highlight.confidence_score

\* C25: enhanceHighlightsWithAI returns highlights with a confidence_score in
\* [0.0, 1.0] on every path (no client, a failing oracle, a response that
\* cannot be parsed, a response it takes), returns its input when the response
\* cannot be parsed, and never changes the position of a highlight.
ReviewKeepsBounds ==
  reviewed # NoOutcome =>
    /\ \A k \in 1..Len(reviewed.highlights) :
         InUnitInterval(reviewed.highlights[k].confidence_score)
    /\ (openai /\ response.kind = "text") => reviewed.highlights = <<highlight>>
    /\ Len(reviewed.highlights) = 1
    /\ \A k \in 1..Len(reviewed.highlights) :
         reviewed.highlights[k].position = highlight.position

\* What does hold: without a client, on a failing oracle and on a response
\* that is no JSON text of an array of objects the input is returned as it
\* is, and no score that went through the map is above 1.0.
ReviewNoOpOnFailure ==
  reviewed # NoOutcome =>
    /\ ~ReclampRan => reviewed.highlights = <<highlight>>
    /\ ReclampRan => \A k \in 1..Len(reviewed.highlights) :
                       reviewed.highlights[k].confidence_score <= One

(***************************************************************************)
(* Properties of repeated runs (checked under SpecReplay)                  *)
(***************************************************************************)

\* C16: the pipeline is deterministic.  Every run on the same raw text, with
\* the same oracle availability and the same oracle response, returns the
\* conversation and the result the first run returned, which are those of a
\* call on RegExp objects nobody has used; and no run leaves a match state
\* behind in the RegExp objects the runs share.
RunsAgree ==
  /\ \A i \in DOMAIN runs : runs[i] = runs[1]
  /\ runs # <<>> => runs[1].conversation = parse(content)
  /\ lastIndex = NoLastIndex

\* A second run has returned, on an input in which a fingerprint occurs and in
\* which the extractors or the oracle found something.
RunsAgreeWitness ==
  /\ Len(runs) = MaxRuns
  /\ detected # "custom"
  /\ runs[MaxRuns].outcome.status = "returned"
  /\ runs[MaxRuns].outcome.result.highlights # <<>>

(***************************************************************************)
(* Properties of the POST handler of the PDF route (checked under          *)
(* SpecRoute)                                                              *)
(***************************************************************************)

\* C28: once the POST handler has responded (400, 200 or 500), no browser that
\* its PDFGenerator launched is open and no page that generatePDF opened is
\* open.
NoBrowserLeftOpen == Responded => launched = {} /\ pages = {}

\* Every page that generatePDF opened is closed once the handler has responded,
\* and after a 400 or a 200 no browser is open.
NoPageLeftOpen ==
  /\ Responded => pages = {}
  /\ route \in {"200", "400"} => launched = {}

(***************************************************************************)
(* Properties of one PDFGenerator under concurrent calls (checked under    *)
(* SpecGenerator)                                                          *)
(***************************************************************************)

\* C29: a PDFGenerator holds at most one launched browser at a time: whatever
\* the interleaving of the calls of generatePDF and close on it, every browser
\* that was launched and is not closed is the one this.browser refers to.
AtMostOneBrowser == launched \subseteq {browser}

(***************************************************************************)
(* Properties of the page component (checked under SpecPage)               *)
(***************************************************************************)

\* The text of the last request is the text from which the parsedConversation
\* and the categorization on display when it was sent were computed.
SentTextIsDisplayedText ==
  request # Null =>
    /\ request.conversationText = request.parsedConversation.text
    /\ request.conversationText = request.categorization.text

\* The parsedConversation and the categorization on display stem from the same
\* run of handleProcessConversation.
DisplayFromOneRun ==
  ResultsDisplayed => parsedConversation.run = categorization.run

\* C30: whenever handleGeneratePDF sends a request, the conversation text it
\* sends is the text from which the parsedConversation and the categorization
\* on display were computed, and the parsedConversation and the categorization
\* on display always stem from the same run of handleProcessConversation.
GenerateSendsProcessedText == SentTextIsDisplayedText /\ DisplayFromOneRun

\* While no run of handleProcessConversation is under way, the
\* parsedConversation and the categorization on display stem from the same run.
DisplayFromOneRunWhenSettled ==
  ResultsDisplayed /\ ~isProcessing => parsedConversation.run = categorization.run

=============================================================================
